---- MODULE Spec2Model ----
(***************************************************************************)
(* State-machine model of AdvancedBacktester                               *)
(* (src/src/utils/backtesting_engine.py): run_backtest, the per-bar        *)
(* simulation loop, the position ledger and the metrics calculator.        *)
(*                                                                         *)
(* Number representation.  The program computes in binary floating point;  *)
(* the model computes in fixed point with floor division:                  *)
(*   money and prices    in 1/Cents of a currency unit,                    *)
(*   quantities          in 1/QtyScale of a unit,                          *)
(*   max_position_size and confidence in 1/Pct,                            *)
(*   commission and slippage          in 1/BP,                             *)
(*   drawdown, per-bar returns, ratios in 1/RatioScale,                    *)
(*   percentages                      in 1/PctScale of a percent.          *)
(* Optional values are <<>> (None) or <<v>>.                               *)
(* Bars carry the timestamps 1, 2, ...; the bar at python index i of a     *)
(* frame that starts at timestamp lo has timestamp lo + i.                 *)
(***************************************************************************)
EXTENDS Integers, Sequences, FiniteSets, TLC

VARIABLES
    data,       \* the caller's DataFrame: [lo, hi, tail, ts_mode]
    config,     \* the config dict passed to run_backtest
    strategy,   \* the answers the plugged-in collaborators are able to give
    oracle,     \* answers the deterministic collaborators gave so far, by the
                \* timestamp of the last bar of the prefix they were asked about
    bt,         \* the AdvancedBacktester instance (its attributes)
    pc,         \* "idle" | "loop": no call running | inside _run_simulation
    run,        \* locals of the run_backtest call in progress
    outcomes,   \* what each finished call gave its caller, in call order
    max_runs,   \* number of run_backtest calls the caller makes
    other,      \* a second AdvancedBacktester instance of the same caller:
                \* [bt, pc, run, outcomes], as above
    heap        \* the list objects of the first instance that its attributes
                \* no longer name: objects[id] is what such an object holds,
                \* refs[k] the id of the series objects that the results dict
                \* returned by call k references

vars == <<data, config, strategy, oracle, bt, pc, run, outcomes, max_runs, other, heap>>

-----------------------------------------------------------------------------
(* Units of the fixed-point representation *)
Cents == 100
QtyScale == 1000
Pct == 100
BP == 10000
RatioScale == 1000
PctScale == 10

None == <<>>
Some(v) == <<v>>

(* Bounds of the model *)
MaxExtra == 2       \* the caller's data has MinDataPoints + MaxExtra bars
MaxRuns == 2        \* calls of run_backtest on one instance (SpecRerun)

(* Program constants *)
commission == 10            \* 0.001 in 1/BP
slippage == bt.slippage     \* self.slippage, in 1/BP; both instances carry
                            \* the value the constructor sets unless the
                            \* caller assigns the attribute
MinDataPoints == 100        \* run_backtest: len(data) < 100
MinPositionValue == 100 * Cents
DefaultAtrPct == 2          \* current_price * 0.02
Infinity == 999999999       \* float('inf')

BasePrice == 100 * Cents
NBars == MinDataPoints + MaxExtra

Abs(x) == IF x < 0 THEN -x ELSE x
Max2(a, b) == IF a > b THEN a ELSE b

RECURSIVE SumSeq(_)
SumSeq(s) == IF s = <<>> THEN 0 ELSE Head(s) + SumSeq(Tail(s))

RECURSIVE MaxSeq(_)
MaxSeq(s) == IF Len(s) = 1 THEN s[1] ELSE Max2(s[1], MaxSeq(Tail(s)))

RECURSIVE MinSeq(_)
MinSeq(s) == IF Len(s) = 1 THEN s[1]
             ELSE IF s[1] < MinSeq(Tail(s)) THEN s[1] ELSE MinSeq(Tail(s))

Last(s) == s[Len(s)]

RemoveAt(s, k) == SubSeq(s, 1, k - 1) \o SubSeq(s, k + 1, Len(s))

-----------------------------------------------------------------------------
(* Position ledger *)

(* _close_position, "Apply slippage" *)
EffectiveExitPriceFavourable(position, exit_price) ==
    IF position.side = "BUY"
    THEN (exit_price * (BP + slippage)) \div BP
    ELSE (exit_price * (BP - slippage)) \div BP

EffectiveExitPrice(position, exit_price) ==
    IF position.side = "BUY"
    THEN (exit_price * (BP - slippage)) \div BP
    ELSE (exit_price * (BP + slippage)) \div BP

(* _close_position, "Calculate P&L" before commission *)
GrossPnl(position, effective_exit_price) ==
    IF position.side = "BUY"
    THEN ((effective_exit_price - position.entry_price) * position.quantity) \div QtyScale
    ELSE ((position.entry_price - effective_exit_price) * position.quantity) \div QtyScale

(* position.quantity * effective_exit_price *)
Proceeds(position, effective_exit_price) ==
    (position.quantity * effective_exit_price) \div QtyScale

(* _close_position, "Apply commission" *)
ExitCommission(position, effective_exit_price) ==
    (Proceeds(position, effective_exit_price) * commission) \div BP

NetPnlNoCommission(position, effective_exit_price) ==
    GrossPnl(position, effective_exit_price)

NetPnl(position, effective_exit_price) ==
    GrossPnl(position, effective_exit_price) - ExitCommission(position, effective_exit_price)

(* _close_position, "Calculate percentage P&L" *)
PnlPct(position, pnl) ==
    (pnl * 100 * PctScale) \div ((position.entry_price * position.quantity) \div QtyScale)

(* _close_position, "Update position" *)
ClosedTradeStatusOpen(position, exit_time, effective_exit_price, pnl, exit_reason) ==
    [position EXCEPT !.exit_time = Some(exit_time),
                     !.exit_price = Some(effective_exit_price),
                     !.pnl = Some(pnl),
                     !.pnl_pct = Some(PnlPct(position, pnl)),
                     !.exit_reason = exit_reason]

ClosedTrade(position, exit_time, effective_exit_price, pnl, exit_reason) ==
    [position EXCEPT !.exit_time = Some(exit_time),
                     !.exit_price = Some(effective_exit_price),
                     !.pnl = Some(pnl),
                     !.pnl_pct = Some(PnlPct(position, pnl)),
                     !.status = "CLOSED",
                     !.exit_reason = exit_reason]

(* _close_position, "Update capital", "Move to completed trades", "Remove
   from open positions" *)
SettlePrepend(b, position_index, position, exit_time, effective_exit_price, exit_reason) ==
    [b EXCEPT !.current_capital = @ + Proceeds(position, effective_exit_price)
                                    - ExitCommission(position, effective_exit_price),
              !.trades = <<ClosedTrade(position, exit_time, effective_exit_price,
                                       NetPnl(position, effective_exit_price),
                                       exit_reason)>> \o @,
              !.open_positions = RemoveAt(@, position_index)]

Settle(b, position_index, position, exit_time, effective_exit_price, exit_reason) ==
    [b EXCEPT !.current_capital = @ + Proceeds(position, effective_exit_price)
                                    - ExitCommission(position, effective_exit_price),
              !.trades = Append(@, ClosedTrade(position, exit_time, effective_exit_price,
                                               NetPnl(position, effective_exit_price),
                                               exit_reason)),
              !.open_positions = RemoveAt(@, position_index)]

(* _close_position; position_index counts from 1 here *)
close_position(b, position_index, exit_time, exit_price, exit_reason) ==
    Settle(b, position_index, b.open_positions[position_index], exit_time,
           EffectiveExitPrice(b.open_positions[position_index], exit_price),
           exit_reason)

(* _close_all_positions: while self.open_positions: close index 0 *)
close_first_position_only(b, exit_time, exit_price, exit_reason) ==
    IF b.open_positions = <<>> THEN b
    ELSE close_position(b, 1, exit_time, exit_price, exit_reason)

RECURSIVE close_all_positions(_, _, _, _)
close_all_positions(b, exit_time, exit_price, exit_reason) ==
    IF b.open_positions = <<>> THEN b
    ELSE close_all_positions(close_position(b, 1, exit_time, exit_price, exit_reason),
                             exit_time, exit_price, exit_reason)

(* the stop-loss / take-profit test of _update_open_positions: "" = keep *)
ExitReasonAtStrict(position, current_price) ==
    IF position.side = "BUY"
    THEN IF current_price < position.stop_loss THEN "STOP_LOSS"
         ELSE IF current_price > position.take_profit THEN "TAKE_PROFIT"
         ELSE ""
    ELSE IF current_price > position.stop_loss THEN "STOP_LOSS"
         ELSE IF current_price < position.take_profit THEN "TAKE_PROFIT"
         ELSE ""

ExitReasonAt(position, current_price) ==
    IF position.side = "BUY"
    THEN IF current_price <= position.stop_loss THEN "STOP_LOSS"
         ELSE IF current_price >= position.take_profit THEN "TAKE_PROFIT"
         ELSE ""
    ELSE IF current_price >= position.stop_loss THEN "STOP_LOSS"
         ELSE IF current_price <= position.take_profit THEN "TAKE_PROFIT"
         ELSE ""

(* positions_to_close: the indices that should close, ascending *)
PositionsToClose(b, current_price) ==
    SelectSeq([k \in 1..Len(b.open_positions) |-> k],
              LAMBDA k : ExitReasonAt(b.open_positions[k], current_price) # "")

(* for i, exit_reason in reversed(positions_to_close): close i *)
RECURSIVE CloseReversed(_, _, _, _)
CloseReversed(b, to_close, current_time, current_price) ==
    IF to_close = <<>> THEN b
    ELSE LET k == Last(to_close)
         IN CloseReversed(
                close_position(b, k, current_time, current_price,
                               ExitReasonAt(b.open_positions[k], current_price)),
                SubSeq(to_close, 1, Len(to_close) - 1),
                current_time, current_price)

(* _update_open_positions *)
update_open_positions(b, current_time, current_price) ==
    CloseReversed(b, PositionsToClose(b, current_price), current_time, current_price)

(* _calculate_unrealized_pnl *)
RECURSIVE UnrealizedOf(_, _)
UnrealizedOf(positions, current_price) ==
    IF positions = <<>> THEN 0
    ELSE LET position == Head(positions)
         IN (IF position.side = "BUY"
             THEN ((current_price - position.entry_price) * position.quantity) \div QtyScale
             ELSE ((position.entry_price - current_price) * position.quantity) \div QtyScale)
            + UnrealizedOf(Tail(positions), current_price)

calculate_unrealized_pnl(b, current_price) == UnrealizedOf(b.open_positions, current_price)

(* indicators.get('atr', current_price * 0.02) *)
AtrOrDefault(indicators, current_price) ==
    IF indicators.atr # None THEN indicators.atr[1]
    ELSE (current_price * DefaultAtrPct) \div 100

(* stop_loss and take_profit of a new trade *)
StopLossLevel(signal, current_price, atr, cfg) ==
    IF signal = "BUY" THEN current_price - atr * cfg.atr_multiplier
    ELSE current_price + atr * cfg.atr_multiplier

TakeProfitLevelNoRatio(signal, current_price, atr, cfg) ==
    IF signal = "BUY" THEN current_price + atr * cfg.atr_multiplier
    ELSE current_price - atr * cfg.atr_multiplier

TakeProfitLevel(signal, current_price, atr, cfg) ==
    IF signal = "BUY"
    THEN current_price + atr * cfg.atr_multiplier * cfg.reward_risk_ratio
    ELSE current_price - atr * cfg.atr_multiplier * cfg.reward_risk_ratio

(* position_value = current_capital * max_position_size * confidence *)
PositionValueOfInitialCapital(b, signal_data, cfg) ==
    (((b.initial_capital * cfg.max_position_size) \div Pct) * signal_data.confidence) \div Pct

PositionValue(b, signal_data, cfg) ==
    (((b.current_capital * cfg.max_position_size) \div Pct) * signal_data.confidence) \div Pct

(* commission_cost = position_value * self.commission *)
EntryCommissionNone(position_value) == 0

EntryCommission(position_value) == (position_value * commission) \div BP

(* the two early returns of _process_signal *)
RejectedValueMinimumOnly(b, position_value) ==
    position_value < MinPositionValue

RejectedValue(b, position_value) ==
    \/ position_value < MinPositionValue
    \/ position_value + EntryCommission(position_value) > b.current_capital

Rejected(b, signal_data, cfg) == RejectedValue(b, PositionValue(b, signal_data, cfg))

(* effective_price: the close with slippage applied *)
EffectiveEntryPrice(signal, current_price) ==
    IF signal = "BUY"
    THEN (current_price * (BP + slippage)) \div BP
    ELSE (current_price * (BP - slippage)) \div BP

(* _process_signal, "Create trade" *)
NewTrade(signal, current_time, current_price, position_value, atr, cfg) ==
    [entry_time |-> current_time,
     exit_time |-> None,
     side |-> signal,
     entry_price |-> EffectiveEntryPrice(signal, current_price),
     exit_price |-> None,
     quantity |-> (position_value * QtyScale) \div current_price,
     stop_loss |-> StopLossLevel(signal, current_price, atr, cfg),
     take_profit |-> TakeProfitLevel(signal, current_price, atr, cfg),
     pnl |-> None,
     pnl_pct |-> None,
     status |-> "OPEN",
     exit_reason |-> ""]

(* _process_signal from "Simple position sizing" on *)
OpenPositionDebitFirst(b, signal, current_time, current_price, position_value, atr, cfg) ==
    IF RejectedValue(b, position_value)
    THEN [b EXCEPT !.current_capital = @ - (position_value + EntryCommission(position_value))]
    ELSE [b EXCEPT !.current_capital = @ - (position_value + EntryCommission(position_value)),
                   !.open_positions = Append(@, NewTrade(signal, current_time, current_price,
                                                         position_value, atr, cfg))]

OpenPosition(b, signal, current_time, current_price, position_value, atr, cfg) ==
    IF RejectedValue(b, position_value) THEN b
    ELSE [b EXCEPT !.current_capital = @ - (position_value + EntryCommission(position_value)),
                   !.open_positions = Append(@, NewTrade(signal, current_time, current_price,
                                                         position_value, atr, cfg))]

(* _process_signal *)
process_signal(b, signal_data, current_time, current_price, indicators, cfg) ==
    OpenPosition(b, signal_data.signal, current_time, current_price,
                 PositionValue(b, signal_data, cfg),
                 AtrOrDefault(indicators, current_price), cfg)

-----------------------------------------------------------------------------
(* The DataFrame.  A frame is the slice lo..hi (timestamps) of the series  *)
(* whose first FlatBars closes are BasePrice and whose later closes are    *)
(* tail; ts_mode says where the timestamps live: in a 'timestamp' column   *)
(* (RangeIndex) or in a DatetimeIndex with no such column.                 *)
FlatBars == MinDataPoints - 1

FrameLen(d) == IF d.hi < d.lo THEN 0 ELSE d.hi - d.lo + 1

(* timestamp and close of the bar at python index i of frame d *)
TimestampAt(d, i) == d.lo + i
CloseAt(d, i) ==
    LET t == TimestampAt(d, i)
    IN IF t <= FlatBars THEN BasePrice ELSE d.tail[t - FlatBars]

(* current_price = float(data.iloc[i]['close']) *)
CurrentPriceLookAhead(d, i) == CloseAt(d, FrameLen(d) - 1)
CurrentPrice(d, i) == CloseAt(d, i)

(* _filter_data_by_date *)
filter_data_by_date(d, start_date, end_date) ==
    IF d.ts_mode = "column"
    THEN [d EXCEPT !.lo = IF start_date # None THEN Max2(d.lo, start_date[1]) ELSE d.lo,
                   !.hi = IF end_date # None /\ end_date[1] < d.hi THEN end_date[1] ELSE d.hi]
    ELSE d

-----------------------------------------------------------------------------
(* Metrics calculator *)

Sign(x) == IF x > 0 THEN 1 ELSE IF x < 0 THEN -1 ELSE 0

AllEqual(s) == \A k \in 1..Len(s) : s[k] = s[1]

PnlOf(trades) == [k \in 1..Len(trades) |-> trades[k].pnl[1]]

(* longest run of consecutive TRUE entries of flags *)
RECURSIVE LongestRun(_, _, _)
LongestRun(flags, current_consecutive, max_consecutive) ==
    IF flags = <<>> THEN max_consecutive
    ELSE IF Head(flags)
         THEN LongestRun(Tail(flags), current_consecutive + 1,
                         Max2(max_consecutive, current_consecutive + 1))
         ELSE LongestRun(Tail(flags), 0, max_consecutive)

(* _calculate_consecutive_wins / _calculate_consecutive_losses *)
calculate_consecutive_wins(b) ==
    LongestRun([k \in 1..Len(b.trades) |-> b.trades[k].pnl[1] > 0], 0, 0)

calculate_consecutive_losses_total(b) ==
    Len(SelectSeq(PnlOf(b.trades), LAMBDA x : x < 0))

calculate_consecutive_losses(b) ==
    LongestRun([k \in 1..Len(b.trades) |-> b.trades[k].pnl[1] < 0], 0, 0)

(* _empty_metrics *)
empty_metrics_infinite_ratios ==
    [total_return |-> 0, total_return_pct |-> 0, annual_return_pct |-> 0,
     max_drawdown |-> 0, max_drawdown_pct |-> 0, sharpe_ratio |-> 0,
     sortino_ratio |-> 0, calmar_ratio |-> 0, win_rate |-> 0,
     profit_factor |-> Infinity,
     avg_win |-> 0, avg_loss |-> 0, max_win |-> 0, max_loss |-> 0,
     total_trades |-> 0, winning_trades |-> 0, losing_trades |-> 0,
     avg_trade_duration |-> 0, avg_bars_in_trade |-> 0,
     consecutive_wins |-> 0, consecutive_losses |-> 0,
     recovery_factor |-> 0, payoff_ratio |-> Infinity]

empty_metrics ==
    [total_return |-> 0, total_return_pct |-> 0, annual_return_pct |-> 0,
     max_drawdown |-> 0, max_drawdown_pct |-> 0, sharpe_ratio |-> 0,
     sortino_ratio |-> 0, calmar_ratio |-> 0, win_rate |-> 0, profit_factor |-> 0,
     avg_win |-> 0, avg_loss |-> 0, max_win |-> 0, max_loss |-> 0,
     total_trades |-> 0, winning_trades |-> 0, losing_trades |-> 0,
     avg_trade_duration |-> 0, avg_bars_in_trade |-> 0,
     consecutive_wins |-> 0, consecutive_losses |-> 0,
     recovery_factor |-> 0, payoff_ratio |-> 0]

(* the body of _calculate_metrics after the empty-trades return.           *)
(* annual_return_pct (a fractional power), sharpe_ratio and sortino_ratio  *)
(* (standard deviations and a square root) are carried by their sign, and  *)
(* calmar_ratio by the sign of its quotient.                               *)
FullMetrics(b) ==
    LET pnls == PnlOf(b.trades)
        total_return == Last(b.equity_curve) - b.initial_capital
        total_return_pct == (total_return * 100 * PctScale) \div b.initial_capital
        annual_return_pct == Sign(total_return)
        max_drawdown == MaxSeq(b.drawdown_curve)
        max_drawdown_pct == (max_drawdown * 100 * PctScale) \div RatioScale
        winning == SelectSeq(pnls, LAMBDA x : x > 0)
        losing == SelectSeq(pnls, LAMBDA x : x < 0)
        win_rate == (Len(winning) * 100 * PctScale) \div Len(pnls)
        avg_win == IF winning # <<>> THEN SumSeq(winning) \div Len(winning) ELSE 0
        avg_loss == IF losing # <<>> THEN SumSeq(losing) \div Len(losing) ELSE 0
        max_win == IF winning # <<>> THEN MaxSeq(winning) ELSE 0
        max_loss == IF losing # <<>> THEN MinSeq(losing) ELSE 0
        profit_factor ==
            IF losing # <<>>
            THEN (Abs(SumSeq(winning)) * RatioScale) \div Abs(SumSeq(losing))
            ELSE Infinity
        payoff_ratio ==
            IF avg_loss # 0 THEN (Abs(avg_win) * RatioScale) \div Abs(avg_loss)
            ELSE Infinity
        downside_returns == SelectSeq(b.daily_returns, LAMBDA r : r < 0)
        sharpe_ratio ==
            IF b.daily_returns # <<>> /\ ~AllEqual(b.daily_returns)
            THEN Sign(SumSeq(b.daily_returns)) ELSE 0
        sortino_ratio ==
            IF b.daily_returns # <<>> /\ downside_returns # <<>>
               /\ ~AllEqual(downside_returns)
            THEN Sign(SumSeq(b.daily_returns)) ELSE 0
        calmar_ratio == IF max_drawdown_pct # 0
                        THEN annual_return_pct * Sign(max_drawdown_pct) ELSE 0
        trade_durations == [k \in 1..Len(b.trades) |->
                               b.trades[k].exit_time[1] - b.trades[k].entry_time]
        avg_trade_duration == SumSeq(trade_durations) \div Len(trade_durations)
        recovery_factor == IF max_drawdown_pct # 0
                           THEN (total_return_pct * RatioScale) \div max_drawdown_pct
                           ELSE 0
    IN [total_return |-> total_return, total_return_pct |-> total_return_pct,
        annual_return_pct |-> annual_return_pct,
        max_drawdown |-> (max_drawdown * b.initial_capital) \div RatioScale,
        max_drawdown_pct |-> max_drawdown_pct, sharpe_ratio |-> sharpe_ratio,
        sortino_ratio |-> sortino_ratio, calmar_ratio |-> calmar_ratio,
        win_rate |-> win_rate, profit_factor |-> profit_factor,
        avg_win |-> avg_win, avg_loss |-> avg_loss,
        max_win |-> max_win, max_loss |-> max_loss,
        total_trades |-> Len(b.trades), winning_trades |-> Len(winning),
        losing_trades |-> Len(losing),
        avg_trade_duration |-> avg_trade_duration,
        avg_bars_in_trade |-> avg_trade_duration,
        consecutive_wins |-> calculate_consecutive_wins(b),
        consecutive_losses |-> calculate_consecutive_losses(b),
        recovery_factor |-> recovery_factor, payoff_ratio |-> payoff_ratio]

(* _calculate_metrics *)
calculate_metrics_win_fraction(b) ==
    IF b.trades = <<>> THEN empty_metrics
    ELSE [FullMetrics(b) EXCEPT
             !.win_rate =
                 (Len(SelectSeq(PnlOf(b.trades), LAMBDA x : x > 0)) * PctScale)
                     \div Len(b.trades)]

calculate_metrics(b) ==
    IF b.trades = <<>> THEN empty_metrics ELSE FullMetrics(b)

(* _trade_to_dict *)
trade_to_dict(trade) ==
    [entry_time |-> trade.entry_time, exit_time |-> trade.exit_time,
     side |-> trade.side, entry_price |-> trade.entry_price,
     exit_price |-> trade.exit_price, quantity |-> trade.quantity,
     pnl |-> trade.pnl, pnl_pct |-> trade.pnl_pct,
     exit_reason |-> trade.exit_reason,
     duration_hours |-> IF trade.exit_time # None
                        THEN Some(trade.exit_time[1] - trade.entry_time) ELSE None]

(* the results dict run_backtest returns *)
Results(b, d) ==
    [backtest_period |-> [start |-> TimestampAt(d, 0),
                          end |-> TimestampAt(d, FrameLen(d) - 1),
                          total_days |-> FrameLen(d)],
     initial_capital |-> b.initial_capital,
     final_capital |-> IF b.equity_curve # <<>> THEN Last(b.equity_curve)
                       ELSE b.initial_capital,
     metrics |-> calculate_metrics(b),
     trades |-> [k \in 1..Len(b.trades) |-> trade_to_dict(b.trades[k])],
     equity_curve |-> b.equity_curve,
     drawdown_curve |-> b.drawdown_curve,
     daily_returns |-> b.daily_returns]

-----------------------------------------------------------------------------
(* Inputs *)

Prices == {96 * Cents, 100 * Cents, 108 * Cents}

(* What the two collaborators give for one prefix: the indicator map (its  *)
(* 'atr' entry, possibly missing) and the strategy's signal, or an         *)
(* exception raised by one of them.                                        *)
Answer(kind, signal, confidence, atr) ==
    [kind |-> kind, signal |-> signal, confidence |-> confidence, atr |-> atr]

Answers ==
    { Answer("ok", "HOLD", 0, Some(2 * Cents)),
      Answer("ok", "BUY", 100, Some(2 * Cents)),
      Answer("ok", "BUY", 100, None),
      Answer("ok", "BUY", 1, Some(2 * Cents)),
      Answer("ok", "SELL", 100, Some(2 * Cents)),
      Answer("indicators_raise", "HOLD", 0, None),
      Answer("strategy_raises", "HOLD", 0, Some(2 * Cents)) }

RerunAnswers ==
    { Answer("ok", "HOLD", 0, Some(2 * Cents)),
      Answer("ok", "BUY", 100, Some(2 * Cents)),
      Answer("ok", "SELL", 100, Some(2 * Cents)),
      Answer("strategy_raises", "HOLD", 0, Some(2 * Cents)) }

Config(lookback, mps, multiplier) ==
    [min_lookback_period |-> lookback, max_position_size |-> mps,
     atr_multiplier |-> multiplier, reward_risk_ratio |-> 2]

Case(capital, cfg, ts_mode) ==
    [initial_capital |-> capital, config |-> cfg, ts_mode |-> ts_mode]

InputCases ==
    { Case(10000 * Cents, Config(FlatBars, 60, 2), "column"),
      Case(10000 * Cents, Config(FlatBars, 60, 2), "index"),
      Case(10000 * Cents, Config(FlatBars, 60, 0), "column"),
      Case(10000 * Cents, Config(FlatBars, 0, 2), "column"),
      Case(10000 * Cents, Config(NBars + 1, 60, 2), "column"),
      Case(0, Config(FlatBars, 60, 2), "column"),
      Case(-100 * Cents, Config(FlatBars, 60, 2), "column") }

RerunCases == { Case(10000 * Cents, Config(FlatBars, 60, 2), "column") }

(* a caller that puts the whole capital at the strategy's disposal, and a
   strategy whose signals differ in confidence, with an indicator calculator
   that may report a volatility of 0.01 *)
FullSizeCases == { Case(10000 * Cents, Config(FlatBars, 100, 2), "column") }

FullSizeAnswers ==
    { Answer("ok", "HOLD", 0, Some(2 * Cents)),
      Answer("ok", "BUY", 50, Some(2 * Cents)),
      Answer("ok", "BUY", 50, Some(1)),
      Answer("ok", "BUY", 100, Some(2 * Cents)) }

(* initial_capital of the caller's second instance *)
OtherCapital == 5000 * Cents

StartArgs == { None, Some(NBars) }
EndArgs == { None, Some(NBars - 1), Some(FlatBars) }

-----------------------------------------------------------------------------
(* self.equity_curve = [], self.drawdown_curve = [], self.daily_returns = [] *)
empty_series == [equity_curve |-> <<>>, drawdown_curve |-> <<>>, daily_returns |-> <<>>]

(* what the three series objects bound to the instance hold *)
SeriesOf(b) ==
    [equity_curve |-> b.equity_curve, drawdown_curve |-> b.drawdown_curve,
     daily_returns |-> b.daily_returns]

EmptyHeap == [objects |-> [id \in {} |-> empty_series],
              refs |-> [k \in {} |-> 0]]

(* AdvancedBacktester.__init__ *)
NewBacktester(initial_capital) ==
    [initial_capital |-> initial_capital,
     trades |-> <<>>, equity_curve |-> <<>>,
     drawdown_curve |-> <<>>, daily_returns |-> <<>>,
     slippage |-> 5,             \* self.slippage = 0.0005
     lists |-> 0,                \* identity of the list objects bound to
                                 \* equity_curve, drawdown_curve, daily_returns
     initialized |-> FALSE,      \* the three attributes below exist
     current_capital |-> 0, peak_capital |-> 0, open_positions |-> <<>>]

(* _initialize_backtest *)
initialize_backtest_keep_capital(b) ==
    [b EXCEPT !.trades = <<>>,
              !.equity_curve = <<b.initial_capital>>,
              !.drawdown_curve = <<0>>,
              !.daily_returns = <<>>,
              !.initialized = TRUE,
              !.lists = @ + 1,
              !.current_capital = IF b.initialized THEN b.current_capital
                                  ELSE b.initial_capital,
              !.peak_capital = b.initial_capital,
              !.open_positions = <<>>]

initialize_backtest_in_place(b) ==
    [b EXCEPT !.trades = <<>>,
              !.equity_curve = <<b.initial_capital>>,
              !.drawdown_curve = <<0>>,
              !.daily_returns = <<>>,
              !.initialized = TRUE,
              !.current_capital = b.initial_capital,
              !.peak_capital = b.initial_capital,
              !.open_positions = <<>>]

initialize_backtest(b) ==
    [b EXCEPT !.trades = <<>>,
              !.equity_curve = <<b.initial_capital>>,
              !.drawdown_curve = <<0>>,
              !.daily_returns = <<>>,
              !.initialized = TRUE,
              !.lists = @ + 1,
              !.current_capital = b.initial_capital,
              !.peak_capital = b.initial_capital,
              !.open_positions = <<>>]

(* _run_simulation, "Update open positions" then "Generate new signals":   *)
(* the ledger after both steps of one bar                                  *)
SignalThenUpdate(b, i, answer, current_time, current_price, cfg) ==
    update_open_positions(
        IF i + 1 >= cfg.min_lookback_period /\ answer.signal \in {"BUY", "SELL"}
        THEN process_signal(b, answer, current_time, current_price,
                            [atr |-> answer.atr], cfg)
        ELSE b,
        current_time, current_price)

(* if signal_data['signal'] in ['BUY', 'SELL']: self._process_signal(...) *)
SignalStepReversing(b, i, answer, current_time, current_price, cfg) ==
    IF i + 1 >= cfg.min_lookback_period /\ answer.signal \in {"BUY", "SELL"}
    THEN process_signal(
             IF b.open_positions # <<>> /\ b.open_positions[1].side # answer.signal
             THEN close_all_positions(b, current_time, current_price, "SIGNAL")
             ELSE b,
             answer, current_time, current_price, [atr |-> answer.atr], cfg)
    ELSE b

SignalStep(b, i, answer, current_time, current_price, cfg) ==
    IF i + 1 >= cfg.min_lookback_period /\ answer.signal \in {"BUY", "SELL"}
    THEN process_signal(b, answer, current_time, current_price,
                        [atr |-> answer.atr], cfg)
    ELSE b

UpdateThenSignal(b, i, answer, current_time, current_price, cfg) ==
    SignalStep(update_open_positions(b, current_time, current_price),
               i, answer, current_time, current_price, cfg)

(* _run_simulation, "Calculate daily returns" *)
AppendReturnSkipFirst(b, current_equity, previous) ==
    IF Len(b.equity_curve) <= 2 THEN [b |-> b, raised |-> ""]
    ELSE IF previous = 0 THEN [b |-> b, raised |-> "ZeroDivisionError"]
    ELSE [b |-> [b EXCEPT !.daily_returns =
                    Append(@, ((current_equity - previous) * RatioScale) \div previous)],
          raised |-> ""]

AppendReturn(b, current_equity, previous) ==
    IF previous = 0 THEN [b |-> b, raised |-> "ZeroDivisionError"]
    ELSE [b |-> [b EXCEPT !.daily_returns =
                    Append(@, ((current_equity - previous) * RatioScale) \div previous)],
          raised |-> ""]

(* _run_simulation, the drawdown sample from the updated peak *)
AppendDrawdown(b, current_equity) ==
    IF b.peak_capital = 0 THEN [b |-> b, raised |-> "ZeroDivisionError"]
    ELSE AppendReturn(
             [b EXCEPT !.drawdown_curve =
                 Append(@, ((b.peak_capital - current_equity) * RatioScale)
                              \div b.peak_capital)],
             current_equity, b.equity_curve[Len(b.equity_curve) - 1])

(* _run_simulation, "Update equity curve" and the running peak *)
AppendEquityPeakIsLast(b, current_equity) ==
    AppendDrawdown(
        [b EXCEPT !.equity_curve = Append(@, current_equity),
                  !.peak_capital = current_equity],
        current_equity)

AppendEquity(b, current_equity) ==
    AppendDrawdown(
        [b EXCEPT !.equity_curve = Append(@, current_equity),
                  !.peak_capital = IF current_equity > @ THEN current_equity ELSE @],
        current_equity)

(* _run_simulation from "Update equity curve" to the end of the iteration *)
BookkeepingRealizedOnly(b, current_price) ==
    AppendEquity(b, b.current_capital)

Bookkeeping(b, current_price) ==
    AppendEquity(b, b.current_capital + calculate_unrealized_pnl(b, current_price))

(* One iteration of the for loop of _run_simulation at python index i,     *)
(* given the collaborators' answer for the prefix 0..i.  The result is the *)
(* instance after the iteration and the exception that left it, if any.    *)
IterationMarkedAtLastClose(b, d, i, answer, cfg) ==
    IF answer.kind = "indicators_raise"
    THEN [b |-> b, raised |-> "CollaboratorError"]
    ELSE IF i + 1 >= cfg.min_lookback_period /\ answer.kind = "strategy_raises"
    THEN [b |-> update_open_positions(b, TimestampAt(d, i), CurrentPrice(d, i)),
          raised |-> "CollaboratorError"]
    ELSE Bookkeeping(UpdateThenSignal(b, i, answer, TimestampAt(d, i),
                                      CurrentPrice(d, i), cfg),
                     CloseAt(d, FrameLen(d) - 1))

Iteration(b, d, i, answer, cfg) ==
    IF answer.kind = "indicators_raise"
    THEN [b |-> b, raised |-> "CollaboratorError"]
    ELSE IF i + 1 >= cfg.min_lookback_period /\ answer.kind = "strategy_raises"
    THEN [b |-> update_open_positions(b, TimestampAt(d, i), CurrentPrice(d, i)),
          raised |-> "CollaboratorError"]
    ELSE Bookkeeping(UpdateThenSignal(b, i, answer, TimestampAt(d, i),
                                      CurrentPrice(d, i), cfg),
                     CurrentPrice(d, i))

(* if len(data) < 100: raise ValueError *)
InsufficientDataByLookback(d, cfg) == FrameLen(d) < cfg.min_lookback_period
InsufficientData(d, cfg) == FrameLen(d) < MinDataPoints

Outcome(args, kind, report, bars) ==
    [args |-> args, kind |-> kind, report |-> report, bars |-> bars]

-----------------------------------------------------------------------------
(* Actions *)

InitWith(cases, answers, runs) ==
    /\ \E c \in cases, tail \in [1..(NBars - FlatBars) -> Prices] :
          /\ data = [lo |-> 1, hi |-> NBars, ts_mode |-> c.ts_mode, tail |-> tail]
          /\ config = c.config
          /\ bt = NewBacktester(c.initial_capital)
    /\ strategy = answers
    /\ oracle = [t \in {} |-> Answer("ok", "HOLD", 0, None)]
    /\ pc = "idle"
    /\ run = [d |-> data, i |-> 0, args |-> <<None, None>>]
    /\ outcomes = <<>>
    /\ max_runs = runs
    /\ other = [bt |-> NewBacktester(OtherCapital), pc |-> "idle",
                run |-> [d |-> data, i |-> 0, args |-> <<None, None>>],
                outcomes |-> <<>>]
    /\ heap = EmptyHeap

Init ==
    \/ InitWith(InputCases, Answers, 1)
    \/ InitWith(FullSizeCases, FullSizeAnswers, 1)

(* run_backtest up to the length check, when the check raises ValueError *)
RunBacktestInsufficientAfterInit(start_date, end_date) ==
    /\ pc = "idle"
    /\ Len(outcomes) < max_runs
    /\ LET d == IF start_date # None \/ end_date # None
                THEN filter_data_by_date(data, start_date, end_date) ELSE data
       IN /\ InsufficientData(d, config)
          /\ outcomes' = Append(outcomes,
                 Outcome(<<start_date, end_date>>, "ValueError", None, FrameLen(d)))
    /\ bt' = initialize_backtest(bt)
    /\ UNCHANGED <<data, config, strategy, oracle, pc, run, max_runs, other, heap>>

RunBacktestInsufficient(start_date, end_date) ==
    /\ pc = "idle"
    /\ Len(outcomes) < max_runs
    /\ LET d == IF start_date # None \/ end_date # None
                THEN filter_data_by_date(data, start_date, end_date) ELSE data
       IN /\ InsufficientData(d, config)
          /\ outcomes' = Append(outcomes,
                 Outcome(<<start_date, end_date>>, "ValueError", None, FrameLen(d)))
    /\ UNCHANGED <<data, config, strategy, oracle, bt, pc, run, max_runs, other, heap>>

(* run_backtest up to the first loop test: filter, length check,
   _initialize_backtest, lookback_period *)
RunBacktestBegin(start_date, end_date) ==
    /\ pc = "idle"
    /\ Len(outcomes) < max_runs
    /\ LET d == IF start_date # None \/ end_date # None
                THEN filter_data_by_date(data, start_date, end_date) ELSE data
       IN /\ ~InsufficientData(d, config)
          /\ bt' = initialize_backtest(bt)
          /\ run' = [d |-> d, i |-> config.min_lookback_period,
                     args |-> <<start_date, end_date>>]
    /\ heap' = IF bt'.lists # bt.lists
               THEN [heap EXCEPT !.objects = (bt.lists :> SeriesOf(bt)) @@ @]
               ELSE heap
    /\ pc' = "loop"
    /\ UNCHANGED <<data, config, strategy, oracle, outcomes, max_runs, other>>

(* one iteration of the simulation loop; the collaborators are deterministic:
   a prefix asked about before gets the answer it got before *)
SimulateBar ==
    /\ pc = "loop"
    /\ run.i < FrameLen(run.d)
    /\ LET t == TimestampAt(run.d, run.i)
       IN \E answer \in strategy :
             /\ t \in DOMAIN oracle => answer = oracle[t]
             /\ oracle' = (t :> answer) @@ oracle
             /\ \E r \in {Iteration(bt, run.d, run.i, answer, config)} :
                   /\ bt' = r.b
                   /\ IF r.raised = ""
                      THEN /\ run' = [run EXCEPT !.i = run.i + 1]
                           /\ UNCHANGED <<pc, outcomes>>
                      ELSE /\ pc' = "idle"
                           /\ outcomes' = Append(outcomes,
                                  Outcome(run.args, r.raised, None, FrameLen(run.d)))
                           /\ UNCHANGED run
    /\ UNCHANGED <<data, config, strategy, max_runs, other, heap>>

(* after the loop: _close_all_positions at the last bar, then the metrics
   and the results dict.  data.iloc[-1]['timestamp'] is a KeyError when the
   frame has no 'timestamp' column. *)
FinishRunSampleAfterClose ==
    /\ pc = "loop"
    /\ run.i >= FrameLen(run.d)
    /\ pc' = "idle"
    /\ IF run.d.ts_mode = "column"
       THEN LET last == FrameLen(run.d) - 1
                c == close_all_positions(bt, TimestampAt(run.d, last),
                                         CloseAt(run.d, last), "END_OF_DATA")
                b == IF bt.open_positions = <<>> THEN c
                     ELSE [c EXCEPT !.equity_curve = Append(@, c.current_capital)]
            IN /\ bt' = b
               /\ outcomes' = Append(outcomes,
                      Outcome(run.args, "Report", Some(Results(b, run.d)), FrameLen(run.d)))
               /\ heap' = [heap EXCEPT !.refs = (Len(outcomes) + 1 :> b.lists) @@ @]
       ELSE /\ bt' = bt
            /\ outcomes' = Append(outcomes,
                   Outcome(run.args, "KeyError", None, FrameLen(run.d)))
            /\ UNCHANGED heap
    /\ UNCHANGED <<data, config, strategy, oracle, run, max_runs, other>>

FinishRun ==
    /\ pc = "loop"
    /\ run.i >= FrameLen(run.d)
    /\ pc' = "idle"
    /\ IF run.d.ts_mode = "column"
       THEN LET last == FrameLen(run.d) - 1
                b == close_all_positions(bt, TimestampAt(run.d, last),
                                         CloseAt(run.d, last), "END_OF_DATA")
            IN /\ bt' = b
               /\ outcomes' = Append(outcomes,
                      Outcome(run.args, "Report", Some(Results(b, run.d)), FrameLen(run.d)))
               /\ heap' = [heap EXCEPT !.refs = (Len(outcomes) + 1 :> b.lists) @@ @]
       ELSE /\ bt' = bt
            /\ outcomes' = Append(outcomes,
                   Outcome(run.args, "KeyError", None, FrameLen(run.d)))
            /\ UNCHANGED heap
    /\ UNCHANGED <<data, config, strategy, oracle, run, max_runs, other>>

Next ==
    \/ \E start_date \in StartArgs, end_date \in EndArgs :
          RunBacktestInsufficient(start_date, end_date)
    \/ \E start_date \in StartArgs, end_date \in EndArgs :
          RunBacktestBegin(start_date, end_date)
    \/ SimulateBar
    \/ FinishRun

Spec == Init /\ [][Next]_vars

(* the same instance, data, config and collaborators, called MaxRuns times
   with or without an end_date *)
InitRerun == InitWith(RerunCases, RerunAnswers, MaxRuns)

NextRerun ==
    \/ \E end_date \in EndArgs : RunBacktestInsufficient(None, end_date)
    \/ \E end_date \in EndArgs : RunBacktestBegin(None, end_date)
    \/ SimulateBar
    \/ FinishRun

SpecRerun == InitRerun /\ [][NextRerun]_vars

(* The second instance.  Its methods are the methods above, acting on its
   own attributes; the caller runs it once, over the whole frame, while the
   run on the first instance is anywhere between its bar steps. *)
OtherRunBacktestBegin ==
    /\ other.pc = "idle"
    /\ other.outcomes = <<>>
    /\ ~InsufficientData(data, config)
    /\ other' = [other EXCEPT !.bt = initialize_backtest(@),
                              !.pc = "loop",
                              !.run = [d |-> data, i |-> config.min_lookback_period,
                                       args |-> <<None, None>>]]
    /\ UNCHANGED <<data, config, strategy, oracle, bt, pc, run, outcomes, max_runs, heap>>

OtherSimulateBarSharedCapital ==
    /\ other.pc = "loop"
    /\ other.run.i < FrameLen(other.run.d)
    /\ LET t == TimestampAt(other.run.d, other.run.i)
       IN \E answer \in strategy :
             /\ t \in DOMAIN oracle => answer = oracle[t]
             /\ oracle' = (t :> answer) @@ oracle
             /\ \E r \in {Iteration(other.bt, other.run.d, other.run.i, answer, config)} :
                   /\ other' = IF r.raised = ""
                               THEN [other EXCEPT !.bt = r.b, !.run.i = @ + 1]
                               ELSE [other EXCEPT
                                       !.bt = r.b,
                                       !.pc = "idle",
                                       !.outcomes = Append(@,
                                           Outcome(other.run.args, r.raised, None,
                                                   FrameLen(other.run.d)))]
                   /\ bt' = [bt EXCEPT !.current_capital = r.b.current_capital]
    /\ UNCHANGED <<data, config, strategy, pc, run, outcomes, max_runs, heap>>

OtherSimulateBar ==
    /\ other.pc = "loop"
    /\ other.run.i < FrameLen(other.run.d)
    /\ LET t == TimestampAt(other.run.d, other.run.i)
       IN \E answer \in strategy :
             /\ t \in DOMAIN oracle => answer = oracle[t]
             /\ oracle' = (t :> answer) @@ oracle
             /\ \E r \in {Iteration(other.bt, other.run.d, other.run.i, answer, config)} :
                   other' = IF r.raised = ""
                            THEN [other EXCEPT !.bt = r.b, !.run.i = @ + 1]
                            ELSE [other EXCEPT
                                    !.bt = r.b,
                                    !.pc = "idle",
                                    !.outcomes = Append(@,
                                        Outcome(other.run.args, r.raised, None,
                                                FrameLen(other.run.d)))]
    /\ UNCHANGED <<data, config, strategy, bt, pc, run, outcomes, max_runs, heap>>

OtherFinishRun ==
    /\ other.pc = "loop"
    /\ other.run.i >= FrameLen(other.run.d)
    /\ \E b \in {close_all_positions(other.bt,
                                      TimestampAt(other.run.d, FrameLen(other.run.d) - 1),
                                      CloseAt(other.run.d, FrameLen(other.run.d) - 1),
                                      "END_OF_DATA")} :
          other' = IF other.run.d.ts_mode = "column"
                   THEN [other EXCEPT
                           !.bt = b,
                           !.pc = "idle",
                           !.outcomes = Append(@,
                               Outcome(other.run.args, "Report",
                                       Some(Results(b, other.run.d)),
                                       FrameLen(other.run.d)))]
                   ELSE [other EXCEPT
                           !.pc = "idle",
                           !.outcomes = Append(@,
                               Outcome(other.run.args, "KeyError", None,
                                       FrameLen(other.run.d)))]
    /\ UNCHANGED <<data, config, strategy, oracle, bt, pc, run, outcomes, max_runs, heap>>

(* two instances, one run over the whole frame on each, their bar steps
   interleaved in any order *)
InitIsolation == InitWith(RerunCases, RerunAnswers, 1)

NextIsolation ==
    \/ RunBacktestBegin(None, None)
    \/ SimulateBar
    \/ FinishRun
    \/ OtherRunBacktestBegin
    \/ OtherSimulateBar
    \/ OtherFinishRun

SpecIsolation == InitIsolation /\ [][NextIsolation]_vars

(* A caller that assigns backtester.slippage = 0 after construction and then
   runs the instance once, on a strategy that trades both sides. *)
ZeroSlippageCases == { Case(10000 * Cents, Config(FlatBars, 60, 2), "column") }

ZeroSlippageAnswers ==
    { Answer("ok", "HOLD", 0, Some(2 * Cents)),
      Answer("ok", "BUY", 100, Some(2 * Cents)),
      Answer("ok", "SELL", 100, Some(2 * Cents)),
      Answer("strategy_raises", "HOLD", 0, Some(2 * Cents)) }

InitZeroSlippage ==
    /\ \E c \in ZeroSlippageCases, tail \in [1..(NBars - FlatBars) -> Prices] :
          /\ data = [lo |-> 1, hi |-> NBars, ts_mode |-> c.ts_mode, tail |-> tail]
          /\ config = c.config
          /\ bt = [NewBacktester(c.initial_capital) EXCEPT !.slippage = 0]
    /\ strategy = ZeroSlippageAnswers
    /\ oracle = [t \in {} |-> Answer("ok", "HOLD", 0, None)]
    /\ pc = "idle"
    /\ run = [d |-> data, i |-> 0, args |-> <<None, None>>]
    /\ outcomes = <<>>
    /\ max_runs = 1
    /\ other = [bt |-> NewBacktester(OtherCapital), pc |-> "idle",
                run |-> [d |-> data, i |-> 0, args |-> <<None, None>>],
                outcomes |-> <<>>]
    /\ heap = EmptyHeap

SpecZeroSlippage == InitZeroSlippage /\ [][Next]_vars

-----------------------------------------------------------------------------
(* Properties *)

Reports == {k \in 1..Len(outcomes) : outcomes[k].kind = "Report"}
ReportOf(k) == outcomes[k].report[1]

(* the call that finished last returned a Report and no call is running *)
JustReturned == pc = "idle" /\ outcomes # <<>> /\ Last(outcomes).kind = "Report"

(* bars the running call has processed; the last of them has index run.i - 1 *)
BarsProcessed == Len(bt.equity_curve) - 1

(* answer the collaborators gave for the bar with timestamp t *)
AnswerAt(t) == oracle[t]

AllTrades == bt.trades \o bt.open_positions

RoundingTolerance == Cents

(* C1: when run_backtest has returned a Report, no position is open and
   every trade of the instance and of the Report is closed, with exit_time,
   exit_price, pnl, pnl_pct set and a non-empty exit_reason. *)
C1_TradeCompleteness ==
    JustReturned =>
        /\ bt.open_positions = <<>>
        /\ \A k \in 1..Len(bt.trades) :
              /\ bt.trades[k].status = "CLOSED"
              /\ bt.trades[k].exit_time # None
              /\ bt.trades[k].exit_price # None
              /\ bt.trades[k].pnl # None
              /\ bt.trades[k].pnl_pct # None
              /\ bt.trades[k].exit_reason # ""
        /\ LET r == Last(outcomes).report[1]
           IN /\ Len(r.trades) = Len(bt.trades)
              /\ \A k \in 1..Len(r.trades) :
                    /\ r.trades[k].exit_time # None
                    /\ r.trades[k].exit_price # None
                    /\ r.trades[k].pnl # None
                    /\ r.trades[k].pnl_pct # None
                    /\ r.trades[k].exit_reason # ""

(* a Report whose trades include both a forced and a stop/target close *)
C1_Witness ==
    /\ JustReturned
    /\ \E j, k \in 1..Len(bt.trades) :
          /\ bt.trades[j].exit_reason = "END_OF_DATA"
          /\ bt.trades[k].exit_reason \in {"STOP_LOSS", "TAKE_PROFIT"}
          /\ bt.trades[j].side # bt.trades[k].side

(* C2: at every simulated bar the recorded equity sample equals
   initial_capital + the pnl of the trades closed so far + the unrealized
   pnl of the open positions (up to rounding). *)
C2_CapitalConservation ==
    (pc = "loop" /\ BarsProcessed >= 1) =>
        Abs(Last(bt.equity_curve)
            - (bt.initial_capital + SumSeq(PnlOf(bt.trades))
               + calculate_unrealized_pnl(bt, CloseAt(run.d, run.i - 1))))
          <= RoundingTolerance

(* the trades of report r that were closed at or before timestamp t *)
ClosedBy(r, t) == SelectSeq(r.trades, LAMBDA tr : tr.exit_time[1] <= t)
NotForced(r) == SelectSeq(r.trades, LAMBDA tr : tr.exit_reason # "END_OF_DATA")

IsPrefix(s, t) == Len(s) <= Len(t) /\ SubSeq(t, 1, Len(s)) = s

(* C3 as stated: a run over bars[0..n] and a run over the longer
   bars[0..m] give identical equity samples and an identical trade list up
   to bar n. *)
C3_NoLookAheadAsStated ==
    \A j, k \in Reports :
        outcomes[j].bars < outcomes[k].bars =>
            /\ IsPrefix(ReportOf(j).equity_curve, ReportOf(k).equity_curve)
            /\ ReportOf(j).trades = ClosedBy(ReportOf(k), outcomes[j].bars)

(* C3 amended: the equity samples are identical up to bar n, and the trades
   the longer run closed at or before bar n are the trades of the shorter
   run other than those it liquidated at its end of data. *)
C3_NoLookAhead ==
    \A j, k \in Reports :
        outcomes[j].bars < outcomes[k].bars =>
            /\ IsPrefix(ReportOf(j).equity_curve, ReportOf(k).equity_curve)
            /\ NotForced(ReportOf(j)) = ClosedBy(ReportOf(k), outcomes[j].bars)

(* a shorter and a longer run, the shorter one with a stop/target close and
   a forced close *)
C3_Witness ==
    \E j, k \in Reports :
        /\ outcomes[j].bars < outcomes[k].bars
        /\ NotForced(ReportOf(j)) # <<>>
        /\ NotForced(ReportOf(j)) # ReportOf(j).trades

(* C4: a bar on which the indicator calculator or the strategy raises does
   not abort run_backtest. *)
C4_PerBarFailureRecovery ==
    \A k \in 1..Len(outcomes) : outcomes[k].kind # "CollaboratorError"

(* C5 as stated: run_backtest raises the insufficient-data error exactly
   when the filtered bar sequence is shorter than min_lookback_period. *)
C5_ThresholdAsStated ==
    \A k \in 1..Len(outcomes) :
        outcomes[k].kind = "ValueError"
            <=> outcomes[k].bars < config.min_lookback_period

(* C5 amended: run_backtest raises the insufficient-data error exactly when
   the filtered bar sequence has fewer than 100 bars, whatever
   min_lookback_period is; any longer sequence enters the simulation. *)
C5_Threshold ==
    /\ \A k \in 1..Len(outcomes) :
          outcomes[k].kind = "ValueError" <=> outcomes[k].bars < MinDataPoints
    /\ pc = "loop" => FrameLen(run.d) >= MinDataPoints

(* a sequence no shorter than min_lookback_period that was refused, or one
   shorter than min_lookback_period that was run to a Report *)
C5_Witness ==
    \E k \in 1..Len(outcomes) :
        \/ /\ outcomes[k].kind = "ValueError"
           /\ outcomes[k].bars >= config.min_lookback_period
           /\ outcomes[k].bars = MinDataPoints - 1
        \/ /\ outcomes[k].kind = "Report"
           /\ outcomes[k].bars < config.min_lookback_period

StartAfterEnd(args) == args[1] # None /\ args[2] # None /\ args[1][1] > args[2][1]

(* C6: with initial_capital <= 0, max_position_size <= 0 or
   start_bound > end_bound, run_backtest simulates no bar and returns no
   Report. *)
C6_InvalidConfiguration ==
    /\ (bt.initial_capital <= 0 \/ config.max_position_size <= 0) =>
          /\ pc = "idle"
          /\ Reports = {}
    /\ pc = "loop" => ~StartAfterEnd(run.args)
    /\ \A k \in Reports : ~StartAfterEnd(outcomes[k].args)

(* C7: two calls of run_backtest on the same instance with the same
   arguments, data, config and deterministic collaborators give the same
   result. *)
C7_Idempotence ==
    \A j, k \in 1..Len(outcomes) :
        outcomes[j].args = outcomes[k].args => outcomes[j] = outcomes[k]

(* the same arguments twice, a Report with trades both times *)
C7_Witness ==
    \E j, k \in Reports :
        /\ j < k
        /\ outcomes[j].args = outcomes[k].args
        /\ Len(ReportOf(k).trades) >= 2

NoPositionOpened == bt.trades = <<>> /\ bt.open_positions = <<>>

RatioFieldsZero(m) ==
    /\ m.win_rate = 0 /\ m.profit_factor = 0 /\ m.payoff_ratio = 0
    /\ m.sharpe_ratio = 0 /\ m.sortino_ratio = 0 /\ m.calmar_ratio = 0
    /\ m.recovery_factor = 0

(* C8: while no position has been opened in a run, every equity sample is
   initial_capital and every drawdown sample is 0; the Report of such a run
   has total_trades = 0 and all ratio fields 0. *)
C8_ZeroTradeDegeneracy ==
    /\ (bt.initialized /\ NoPositionOpened) =>
          /\ \A k \in 1..Len(bt.equity_curve) : bt.equity_curve[k] = bt.initial_capital
          /\ \A k \in 1..Len(bt.drawdown_curve) : bt.drawdown_curve[k] = 0
    /\ (JustReturned /\ NoPositionOpened) =>
          LET r == Last(outcomes).report[1]
          IN /\ r.metrics.total_trades = 0
             /\ RatioFieldsZero(r.metrics)
             /\ r.final_capital = bt.initial_capital

(* a Report without trades although a BUY signal was given under a sound
   configuration (its confidence sized it below the minimum) *)
C8_Witness ==
    /\ JustReturned
    /\ bt.initial_capital > 0 /\ config.max_position_size > 0
    /\ NoPositionOpened
    /\ Len(bt.equity_curve) >= 3
    /\ \E t \in DOMAIN oracle : AnswerAt(t).signal \in {"BUY", "SELL"}

(* C9: a trade closed by STOP_LOSS or TAKE_PROFIT was closed on a bar
   strictly later than the bar it was opened on. *)
C9_ExitAfterEntry ==
    \A k \in 1..Len(bt.trades) :
        bt.trades[k].exit_reason \in {"STOP_LOSS", "TAKE_PROFIT"} =>
            bt.trades[k].exit_time[1] > bt.trades[k].entry_time

(* a stop-loss close of a position whose stop level is its entry close *)
C9_Witness ==
    \E k \in 1..Len(bt.trades) :
        /\ bt.trades[k].exit_reason = "STOP_LOSS"
        /\ bt.trades[k].stop_loss = CloseAt(data, bt.trades[k].entry_time - 1)

(* C10: a trade opened at bar close p with volatility a (the 'atr' entry,
   or 2% of p when it is missing) has stop_loss = p - a * atr_multiplier and
   take_profit = p + a * atr_multiplier * reward_risk_ratio for BUY, and the
   mirrored levels for SELL; p = 100, a = 2, multiplier 2, ratio 2 give 96
   and 108. *)
C10_StopTargetLevels ==
    \A k \in 1..Len(AllTrades) :
        LET tr == AllTrades[k]
            p == CloseAt(data, tr.entry_time - 1)
            atr == AnswerAt(tr.entry_time).atr
            a == IF atr = None THEN (p * 2) \div 100 ELSE atr[1]
            risk == a * config.atr_multiplier
            reward == a * config.atr_multiplier * config.reward_risk_ratio
        IN /\ tr.side = "BUY" => tr.stop_loss = p - risk /\ tr.take_profit = p + reward
           /\ tr.side = "SELL" => tr.stop_loss = p + risk /\ tr.take_profit = p - reward
           /\ (tr.side = "BUY" /\ p = 100 * Cents /\ a = 2 * Cents
               /\ config.atr_multiplier = 2 /\ config.reward_risk_ratio = 2)
                 => tr.stop_loss = 96 * Cents /\ tr.take_profit = 108 * Cents

(* a BUY with an 'atr' entry of 2 at close 100, a BUY without an 'atr'
   entry and a SELL *)
C10_Witness ==
    \E j, k, l \in 1..Len(AllTrades) :
        /\ AllTrades[j].side = "BUY"
        /\ AnswerAt(AllTrades[j].entry_time).atr = Some(2 * Cents)
        /\ AllTrades[j].stop_loss = 96 * Cents
        /\ AllTrades[j].take_profit = 108 * Cents
        /\ AllTrades[k].side = "SELL"
        /\ AllTrades[k].stop_loss > AllTrades[k].take_profit
        /\ AllTrades[l].side = "BUY"
        /\ AnswerAt(AllTrades[l].entry_time).atr = None
        /\ config.atr_multiplier = 2

(* timestamps of the bars on which _update_open_positions has run (Spec:
   every bar the collaborators were asked about, unless the indicator
   calculator raised before the update) *)
UpdatedBars == {t \in DOMAIN oracle : oracle[t].kind # "indicators_raise"}

(* the close of bar t satisfies the stop or the target condition of tr *)
StopHit(tr, t) ==
    IF tr.side = "BUY" THEN CloseAt(data, t - 1) <= tr.stop_loss
    ELSE CloseAt(data, t - 1) >= tr.stop_loss
TargetHit(tr, t) ==
    IF tr.side = "BUY" THEN CloseAt(data, t - 1) >= tr.take_profit
    ELSE CloseAt(data, t - 1) <= tr.take_profit

(* C11: a trade closed with STOP_LOSS (TAKE_PROFIT) was closed on a bar after
   its entry whose close is at or beyond its stop (target), on the first such
   bar; a position that is still open, or was liquidated at the end of data,
   met its exit condition on no bar after its entry on which positions were
   updated; so no position is closed by the rule on a bar whose close lies
   strictly between its two levels. *)
C11_ExitAtFirstCrossing ==
    \A k \in 1..Len(AllTrades) :
        LET tr == AllTrades[k]
        IN /\ tr.exit_reason = "STOP_LOSS" =>
                 tr.exit_time[1] > tr.entry_time /\ StopHit(tr, tr.exit_time[1])
           /\ tr.exit_reason = "TAKE_PROFIT" =>
                 /\ tr.exit_time[1] > tr.entry_time
                 /\ TargetHit(tr, tr.exit_time[1])
                 /\ ~StopHit(tr, tr.exit_time[1])
           /\ \A t \in UpdatedBars :
                 (/\ t > tr.entry_time
                  /\ \/ tr.exit_time = None
                     \/ t < tr.exit_time[1]
                     \/ tr.exit_reason = "END_OF_DATA")
                    => ~StopHit(tr, t) /\ ~TargetHit(tr, t)

(* a BUY closed exactly at its stop level two bars after its entry, the bar
   in between lying strictly between its levels *)
C11_Witness ==
    \E j \in 1..Len(bt.trades) :
        /\ bt.trades[j].side = "BUY"
        /\ bt.trades[j].exit_reason = "STOP_LOSS"
        /\ bt.trades[j].exit_time[1] = bt.trades[j].entry_time + 2
        /\ bt.trades[j].stop_loss < bt.trades[j].take_profit
        /\ CloseAt(data, bt.trades[j].exit_time[1] - 1) = bt.trades[j].stop_loss
        /\ CloseAt(data, bt.trades[j].entry_time) > bt.trades[j].stop_loss
        /\ CloseAt(data, bt.trades[j].entry_time) < bt.trades[j].take_profit

(* the simulation loop of the last call ran to its end *)
LoopCompleted ==
    pc = "idle" /\ outcomes # <<>> /\ Last(outcomes).kind \in {"Report", "KeyError"}

(* C12: once the last bar has been processed, every position that was still
   open is closed with exit_reason END_OF_DATA, exit_time the timestamp of
   the final bar, and the settlement of a stop/target close at the final
   close (slippage on the exit price, pnl net of the exit commission). *)
C12_EndOfDataLiquidation ==
    LoopCompleted =>
        /\ bt.open_positions = <<>>
        /\ \A k \in 1..Len(bt.trades) :
              bt.trades[k].exit_reason = "END_OF_DATA" =>
                  LET tr == bt.trades[k]
                      last == FrameLen(run.d) - 1
                      price == EffectiveExitPrice(tr, CloseAt(run.d, last))
                  IN /\ tr.exit_time = Some(TimestampAt(run.d, last))
                     /\ tr.exit_price = Some(price)
                     /\ tr.pnl = Some(NetPnl(tr, price))
                     /\ tr.status = "CLOSED"

(* position value and cost that max_position_size and a confidence give on
   an amount of capital *)
SizedValue(capital, confidence) ==
    (((capital * config.max_position_size) \div Pct) * confidence) \div Pct
CostOf(value) == value + (value * commission) \div BP

(* the first two bars of the run have been processed, the strategy answered
   BUY on both, and the position opened on the first is still open *)
TwoBuysFirstOpen ==
    /\ pc = "loop" /\ BarsProcessed = 2
    /\ \A t \in {TimestampAt(run.d, run.i - 2), TimestampAt(run.d, run.i - 1)} :
          AnswerAt(t).kind = "ok" /\ AnswerAt(t).signal = "BUY"
    /\ bt.open_positions # <<>>
    /\ bt.open_positions[1].entry_time = TimestampAt(run.d, run.i - 2)

(* realized capital left by the first position *)
RemainingAfterFirst ==
    bt.initial_capital
    - CostOf(SizedValue(bt.initial_capital,
                        AnswerAt(TimestampAt(run.d, run.i - 2)).confidence))

SecondConfidence == AnswerAt(TimestampAt(run.d, run.i - 1)).confidence

(* C13 as stated: two BUY signals on successive bars, the first position
   still open, max_position_size such that the value it gives the second
   position on the run's capital, with commission, exceeds the capital left
   by the first: the second is rejected and exactly one trade is open. *)
C13_ScenarioDAsStated ==
    (/\ TwoBuysFirstOpen
     /\ CostOf(SizedValue(bt.initial_capital, SecondConfidence)) > RemainingAfterFirst)
        => Len(bt.open_positions) = 1

(* C13 amended: the value of the second position is sized from the capital
   left by the first; the second signal is rejected, leaving exactly one
   open trade, exactly when that value is below 100 or with its commission
   exceeds the capital left; otherwise it is opened as a second trade. *)
C13_ScenarioD ==
    TwoBuysFirstOpen =>
        LET value == SizedValue(RemainingAfterFirst, SecondConfidence)
        IN IF value < MinPositionValue \/ CostOf(value) > RemainingAfterFirst
           THEN Len(bt.open_positions) = 1
                /\ bt.current_capital = RemainingAfterFirst
           ELSE Len(bt.open_positions) = 2
                /\ bt.current_capital = RemainingAfterFirst - CostOf(value)

(* a second BUY worth at least 100 that was rejected because, with its
   commission, it exceeds the capital left by the first *)
C13_Witness ==
    /\ TwoBuysFirstOpen
    /\ SizedValue(RemainingAfterFirst, SecondConfidence) >= MinPositionValue
    /\ CostOf(SizedValue(RemainingAfterFirst, SecondConfidence)) > RemainingAfterFirst
    /\ Len(bt.open_positions) = 1

(* C14: trades closed on the same bar stand in the closed-trade list in the
   order in which they were opened. *)
C14_SameBarClosureOrder ==
    \A j, k \in 1..Len(bt.trades) :
        (j < k /\ bt.trades[j].exit_time = bt.trades[k].exit_time)
            => bt.trades[j].entry_time < bt.trades[k].entry_time

(* a step of the simulation loop over one bar, and the bar's timestamp *)
BarStep == pc = "loop" /\ run.i < FrameLen(run.d)
StepTime == TimestampAt(run.d, run.i)

(* the strategy's answer on the bar of this step is a BUY or SELL signal *)
SignalGiven == oracle'[StepTime].kind = "ok" /\ oracle'[StepTime].signal \in {"BUY", "SELL"}

(* the ledger the signal of this step meets: the positions have been updated
   at the bar's close *)
LedgerAtSignal == update_open_positions(bt, StepTime, CloseAt(data, StepTime - 1))

(* value the signal of this step is sized to *)
ValueAtSignal == SizedValue(LedgerAtSignal.current_capital, oracle'[StepTime].confidence)

(* C15: when the value a signal is sized to (current capital x
   max_position_size x confidence) is below 100, or with its commission
   exceeds current capital, processing the signal leaves realized capital,
   the open positions and the closed trades as they were, and the bar only
   appends to the curves. *)
C15_RejectedSignalFrame ==
    [][ (/\ BarStep
         /\ SignalGiven
         /\ \/ ValueAtSignal < MinPositionValue
            \/ CostOf(ValueAtSignal) > LedgerAtSignal.current_capital)
        => /\ bt'.current_capital = LedgerAtSignal.current_capital
           /\ bt'.open_positions = LedgerAtSignal.open_positions
           /\ bt'.trades = LedgerAtSignal.trades
           /\ IsPrefix(bt.equity_curve, bt'.equity_curve)
           /\ IsPrefix(bt.drawdown_curve, bt'.drawdown_curve)
           /\ IsPrefix(bt.daily_returns, bt'.daily_returns) ]_vars

(* a BUY sized below 100 was discarded on the last processed bar while an
   earlier trade was on the books *)
C15_Witness ==
    /\ pc = "loop" /\ BarsProcessed >= 2
    /\ AnswerAt(TimestampAt(run.d, run.i - 1)).signal = "BUY"
    /\ AnswerAt(TimestampAt(run.d, run.i - 1)).kind = "ok"
    /\ bt.current_capital > 0
    /\ SizedValue(bt.current_capital,
                  AnswerAt(TimestampAt(run.d, run.i - 1)).confidence) < MinPositionValue
    /\ AllTrades # <<>>
    /\ \A k \in 1..Len(AllTrades) :
          AllTrades[k].entry_time < TimestampAt(run.d, run.i - 1)

(* timestamp t lies within the bounds passed to the call *)
InBounds(t) ==
    /\ run.args[1] # None => run.args[1][1] <= t
    /\ run.args[2] # None => t <= run.args[2][1]

(* C16: with start_date and/or end_date passed to run_backtest, every bar
   for which an equity sample was recorded, and every bar on which a trade
   was entered or exited, has start_date <= timestamp <= end_date, whether
   the timestamps are a column or the index of the frame. *)
C16_DateBounds ==
    bt.initialized =>
        /\ \A n \in 1..BarsProcessed :
              InBounds(TimestampAt(run.d, config.min_lookback_period + n - 1))
        /\ \A k \in 1..Len(AllTrades) :
              /\ InBounds(AllTrades[k].entry_time)
              /\ AllTrades[k].exit_time # None => InBounds(AllTrades[k].exit_time[1])

(* the instance a run on b starts from, and the instance after the bars
   from index i up to, not including, index upto, when nothing else runs *)
AloneStart(b) == initialize_backtest(NewBacktester(b.initial_capital))

RECURSIVE AloneUpTo(_, _, _)
AloneUpTo(b, i, upto) ==
    IF i >= upto THEN b
    ELSE AloneUpTo(Iteration(b, data, i, AnswerAt(TimestampAt(data, i)), config).b,
                   i + 1, upto)

(* what the call gives when the loop ends, or is left, at index i *)
AloneOutcome(b, i) ==
    IF i >= FrameLen(data)
    THEN Outcome(<<None, None>>, "Report",
                 Some(Results(close_all_positions(b, TimestampAt(data, FrameLen(data) - 1),
                                                  CloseAt(data, FrameLen(data) - 1),
                                                  "END_OF_DATA"), data)),
                 FrameLen(data))
    ELSE Outcome(<<None, None>>,
                 Iteration(b, data, i, AnswerAt(TimestampAt(data, i)), config).raised,
                 None, FrameLen(data))

(* the instance b, at index i of its run, is as it is when run alone, and
   so is what its call returned *)
AsWhenAlone(b, position, i, results) ==
    /\ position = "loop" => b = AloneUpTo(AloneStart(b), config.min_lookback_period, i)
    /\ (position = "idle" /\ results # <<>>) =>
          Last(results) =
              AloneOutcome(AloneUpTo(AloneStart(b), config.min_lookback_period, i), i)

(* C17: two runs on distinct instances, their bar steps interleaved in any
   order: at every step each instance's capital, peak, open positions,
   trades and curves are those of the run executed alone, and each call
   returns the Report it returns alone. *)
C17_RunIsolation ==
    /\ AsWhenAlone(bt, pc, run.i, outcomes)
    /\ AsWhenAlone(other.bt, other.pc, other.run.i, other.outcomes)

(* both runs under way at different bars, each with a position taken *)
C17_Witness ==
    /\ pc = "loop" /\ other.pc = "loop"
    /\ run.i = config.min_lookback_period + 2
    /\ other.run.i = config.min_lookback_period + 1
    /\ bt.trades # <<>>
    /\ other.bt.open_positions # <<>>
    /\ bt.current_capital # other.bt.current_capital

(* C18: in a run over N bars with lookback L the loop is at an index
   i >= L having processed exactly the bars L..i-1, the equity and drawdown
   series have i - L + 1 entries starting with initial_capital and 0, and
   the return series has i - L entries; when the loop has ended (N > L) that
   is N - L + 1, N - L + 1 and N - L, in the instance and in the Report. *)
C18_SeriesLengths ==
    /\ pc = "loop" =>
          /\ run.i >= config.min_lookback_period
          /\ DOMAIN oracle =
                {TimestampAt(run.d, k) : k \in config.min_lookback_period..(run.i - 1)}
          /\ Len(bt.equity_curve) = run.i - config.min_lookback_period + 1
          /\ Len(bt.drawdown_curve) = Len(bt.equity_curve)
          /\ Len(bt.daily_returns) = run.i - config.min_lookback_period
          /\ bt.equity_curve[1] = bt.initial_capital
          /\ bt.drawdown_curve[1] = 0
    /\ (LoopCompleted /\ FrameLen(run.d) > config.min_lookback_period) =>
          /\ Len(bt.equity_curve) = FrameLen(run.d) - config.min_lookback_period + 1
          /\ Len(bt.drawdown_curve) = FrameLen(run.d) - config.min_lookback_period + 1
          /\ Len(bt.daily_returns) = FrameLen(run.d) - config.min_lookback_period
          /\ bt.equity_curve[1] = bt.initial_capital
          /\ bt.drawdown_curve[1] = 0
          /\ Last(outcomes).kind = "Report" =>
                /\ ReportOf(Len(outcomes)).equity_curve = bt.equity_curve
                /\ ReportOf(Len(outcomes)).drawdown_curve = bt.drawdown_curve
                /\ ReportOf(Len(outcomes)).daily_returns = bt.daily_returns

(* a Report of a run with trades over a frame cut by an end_date, longer
   than the lookback by at least two bars *)
C18_Witness ==
    /\ JustReturned
    /\ run.args[2] # None
    /\ FrameLen(run.d) >= config.min_lookback_period + 2
    /\ Len(bt.daily_returns) = FrameLen(run.d) - config.min_lookback_period
    /\ bt.trades # <<>>

(* the trades a sequence of trades holds, by the bar they were entered on *)
EntriesOf(trades) == {trades[k].entry_time : k \in 1..Len(trades)}

IsOpenTrade(tr) ==
    /\ tr.status = "OPEN"
    /\ tr.exit_time = None /\ tr.exit_price = None
    /\ tr.pnl = None /\ tr.pnl_pct = None
    /\ tr.exit_reason = ""

IsClosedTrade(tr) ==
    /\ tr.status = "CLOSED"
    /\ tr.exit_time # None /\ tr.exit_price # None
    /\ tr.pnl # None /\ tr.pnl_pct # None
    /\ tr.exit_reason \in {"STOP_LOSS", "TAKE_PROFIT", "END_OF_DATA"}

(* C19: in every state each trade is in exactly one of open_positions and
   trades; every trade in open_positions is OPEN with exit_time, exit_price,
   pnl, pnl_pct null and exit_reason empty; every trade in trades is CLOSED
   with all exit fields set; and in every step of a run no trade disappears
   and the closed trades stay, unchanged, where they are in the list. *)
C19_TradeLifecycle ==
    /\ [](/\ \A k \in 1..Len(bt.open_positions) : IsOpenTrade(bt.open_positions[k])
          /\ \A k \in 1..Len(bt.trades) : IsClosedTrade(bt.trades[k])
          /\ EntriesOf(bt.open_positions) \cap EntriesOf(bt.trades) = {}
          /\ Cardinality(EntriesOf(AllTrades)) = Len(AllTrades))
    /\ [][ pc = "loop" =>
              /\ IsPrefix(bt.trades, bt'.trades)
              /\ EntriesOf(AllTrades) \subseteq EntriesOf(bt'.trades \o bt'.open_positions)
          ]_vars

(* an open position beside a trade that was closed on an earlier bar than
   the one processed last *)
C19_Witness ==
    /\ pc = "loop"
    /\ bt.open_positions # <<>>
    /\ bt.trades # <<>>
    /\ bt.trades[1].exit_time[1] < TimestampAt(run.d, run.i - 1)

(* C20: when the value a BUY or SELL signal is sized to (current capital x
   max_position_size x confidence) is at least 100 and with its commission
   does not exceed current capital, realized capital decreases by exactly
   that value plus the commission on it, one trade of the signal's side,
   entered on this bar, with status OPEN and quantity > 0, is appended to
   the end of the open positions, and the closed trades and the positions
   already open are unchanged. *)
C20_AcceptedSignal ==
    [][ (/\ BarStep
         /\ SignalGiven
         /\ ValueAtSignal >= MinPositionValue
         /\ CostOf(ValueAtSignal) <= LedgerAtSignal.current_capital)
        => /\ bt'.current_capital
                 = LedgerAtSignal.current_capital - CostOf(ValueAtSignal)
           /\ Len(bt'.open_positions) = Len(LedgerAtSignal.open_positions) + 1
           /\ SubSeq(bt'.open_positions, 1, Len(LedgerAtSignal.open_positions))
                 = LedgerAtSignal.open_positions
           /\ Last(bt'.open_positions).status = "OPEN"
           /\ Last(bt'.open_positions).quantity > 0
           /\ Last(bt'.open_positions).side = oracle'[StepTime].signal
           /\ Last(bt'.open_positions).entry_time = StepTime
           /\ bt'.trades = LedgerAtSignal.trades ]_vars

(* a SELL accepted on the last processed bar next to a BUY position that
   was already open *)
C20_Witness ==
    /\ pc = "loop"
    /\ Len(bt.open_positions) >= 2
    /\ Last(bt.open_positions).side = "SELL"
    /\ Last(bt.open_positions).entry_time = TimestampAt(run.d, run.i - 1)
    /\ bt.open_positions[1].side = "BUY"

(* what a closed trade's stored fields say: the exit commission, the
   directional price delta times quantity, and the credit to capital *)
ExitCommissionOf(tr) ==
    (((tr.quantity * tr.exit_price[1]) \div QtyScale) * commission) \div BP
DirectionalPnlOf(tr) ==
    IF tr.side = "BUY"
    THEN ((tr.exit_price[1] - tr.entry_price) * tr.quantity) \div QtyScale
    ELSE ((tr.entry_price - tr.exit_price[1]) * tr.quantity) \div QtyScale
CreditOf(tr) == (tr.quantity * tr.exit_price[1]) \div QtyScale - ExitCommissionOf(tr)

RECURSIVE SumCredits(_)
SumCredits(trades) ==
    IF trades = <<>> THEN 0 ELSE CreditOf(Head(trades)) + SumCredits(Tail(trades))

(* the trades this step appended to the closed list, and the positions
   open before the step that are not among them *)
NewlyClosed == SubSeq(bt'.trades, Len(bt.trades) + 1, Len(bt'.trades))
KeptOpen(closed_entries) ==
    SelectSeq(bt.open_positions, LAMBDA p : p.entry_time \notin closed_entries)

(* the trade as it was while open *)
AsOpen(tr) ==
    [tr EXCEPT !.exit_time = None, !.exit_price = None, !.pnl = None,
               !.pnl_pct = None, !.status = "OPEN", !.exit_reason = ""]

(* C21: every closed trade has pnl = directional price delta x quantity
   minus the exit commission and pnl_pct = pnl / (entry_price x quantity) x
   100; a step of a run that closes positions appends exactly those
   positions to the closed list, leaves the other open positions as they
   were and in place, and increases realized capital by quantity x
   exit_price minus the exit commission for each (less the cost of a
   position opened later on the same bar). *)
C21_SettlementOnClose ==
    /\ [](\A k \in 1..Len(bt.trades) :
            /\ bt.trades[k].pnl
                  = Some(DirectionalPnlOf(bt.trades[k]) - ExitCommissionOf(bt.trades[k]))
            /\ bt.trades[k].pnl_pct
                  = Some((bt.trades[k].pnl[1] * 100 * PctScale)
                         \div ((bt.trades[k].entry_price * bt.trades[k].quantity)
                                  \div QtyScale)))
    /\ [][ pc = "loop" =>
              /\ IsPrefix(bt.trades, bt'.trades)
              /\ \A k \in 1..Len(NewlyClosed) :
                    \E j \in 1..Len(bt.open_positions) :
                        bt.open_positions[j] = AsOpen(NewlyClosed[k])
              /\ IsPrefix(KeptOpen(EntriesOf(NewlyClosed)), bt'.open_positions)
              /\ Len(bt.open_positions) - Len(NewlyClosed)
                    = Len(KeptOpen(EntriesOf(NewlyClosed)))
              /\ IF Len(bt'.open_positions) > Len(bt.open_positions) - Len(NewlyClosed)
                 THEN bt'.current_capital
                        = bt.current_capital + SumCredits(NewlyClosed)
                          - CostOf(SizedValue(bt.current_capital + SumCredits(NewlyClosed),
                                              oracle'[StepTime].confidence))
                 ELSE bt'.current_capital = bt.current_capital + SumCredits(NewlyClosed)
          ]_vars

(* a position closed on the last processed bar while a position opened
   before that bar stays open *)
C21_Witness ==
    /\ pc = "loop"
    /\ bt.trades # <<>>
    /\ Last(bt.trades).exit_time = Some(TimestampAt(run.d, run.i - 1))
    /\ \E k \in 1..Len(bt.open_positions) :
          bt.open_positions[k].entry_time < TimestampAt(run.d, run.i - 1)

(* the volatility value the trade was created with: the 'atr' entry of its
   entry bar, or 2% of that bar's close *)
VolatilityOf(tr) ==
    IF AnswerAt(tr.entry_time).atr = None
    THEN (CloseAt(data, tr.entry_time - 1) * 2) \div 100
    ELSE AnswerAt(tr.entry_time).atr[1]

(* C22: every BUY trade created with a positive volatility value, a positive
   atr_multiplier and a positive reward_risk_ratio has
   stop_loss < entry_price < take_profit, entry_price being the
   slippage-adjusted fill price stored on the trade. *)
C22_BuyLevelOrdering ==
    \A k \in 1..Len(AllTrades) :
        (/\ AllTrades[k].side = "BUY"
         /\ VolatilityOf(AllTrades[k]) > 0
         /\ config.atr_multiplier > 0
         /\ config.reward_risk_ratio > 0)
            => /\ AllTrades[k].stop_loss < AllTrades[k].entry_price
               /\ AllTrades[k].entry_price < AllTrades[k].take_profit

(* the close of the bar a trade was entered on, and of the bar it was
   exited on *)
EntryClose(tr) == CloseAt(data, tr.entry_time - 1)
ExitClose(tr) == CloseAt(data, tr.exit_time[1] - 1)

(* C23: the entry fill is the bar close times (1 + slippage) for BUY and
   times (1 - slippage) for SELL, the exit fill is the bar close times
   (1 - slippage) for BUY and times (1 + slippage) for SELL; so a BUY is
   never entered below nor exited above the close, and a SELL never entered
   above nor exited below it. *)
C23_SlippageDirection ==
    \A k \in 1..Len(AllTrades) :
        LET tr == AllTrades[k]
        IN /\ tr.side = "BUY" =>
                 /\ tr.entry_price = (EntryClose(tr) * (BP + slippage)) \div BP
                 /\ tr.entry_price >= EntryClose(tr)
           /\ tr.side = "SELL" =>
                 /\ tr.entry_price = (EntryClose(tr) * (BP - slippage)) \div BP
                 /\ tr.entry_price <= EntryClose(tr)
           /\ (tr.side = "BUY" /\ tr.exit_price # None) =>
                 /\ tr.exit_price[1] = (ExitClose(tr) * (BP - slippage)) \div BP
                 /\ tr.exit_price[1] <= ExitClose(tr)
           /\ (tr.side = "SELL" /\ tr.exit_price # None) =>
                 /\ tr.exit_price[1] = (ExitClose(tr) * (BP + slippage)) \div BP
                 /\ tr.exit_price[1] >= ExitClose(tr)

(* a closed BUY and a closed SELL, each filled strictly worse than the close
   at entry and at exit *)
C23_Witness ==
    \E j, k \in 1..Len(bt.trades) :
        /\ bt.trades[j].side = "BUY"
        /\ bt.trades[j].entry_price > EntryClose(bt.trades[j])
        /\ bt.trades[j].exit_price[1] < ExitClose(bt.trades[j])
        /\ bt.trades[k].side = "SELL"
        /\ bt.trades[k].entry_price < EntryClose(bt.trades[k])
        /\ bt.trades[k].exit_price[1] > ExitClose(bt.trades[k])

(* the running peak when the k-th equity sample was recorded: the maximum of
   initial_capital (the first sample) and the samples up to it *)
PeakAt(k) == MaxSeq(SubSeq(bt.equity_curve, 1, k))

(* C24: the running peak is the maximum of initial_capital and all equity
   samples recorded so far; the drawdown sample of every processed bar is
   (peak - equity) / peak for the peak at that bar, is >= 0, is 0 where the
   equity equals the peak and is positive only where it is below it. *)
C24_DrawdownFromPeak ==
    bt.initialized =>
        /\ bt.peak_capital = PeakAt(Len(bt.equity_curve))
        /\ bt.equity_curve[1] = bt.initial_capital
        /\ \A k \in 2..Len(bt.drawdown_curve) :
              /\ bt.drawdown_curve[k]
                    = ((PeakAt(k) - bt.equity_curve[k]) * RatioScale) \div PeakAt(k)
              /\ bt.drawdown_curve[k] >= 0
              /\ bt.equity_curve[k] = PeakAt(k) => bt.drawdown_curve[k] = 0
              /\ bt.drawdown_curve[k] > 0 => bt.equity_curve[k] < PeakAt(k)

(* a bar below the peak followed by a bar that set a new peak above
   initial_capital *)
C24_Witness ==
    /\ bt.initialized
    /\ bt.peak_capital > bt.initial_capital
    /\ \E k \in 2..Len(bt.drawdown_curve) :
          /\ bt.drawdown_curve[k] > 0
          /\ \E j \in (k + 1)..Len(bt.drawdown_curve) :
                bt.drawdown_curve[j] = 0 /\ bt.equity_curve[j] = bt.peak_capital

(* sum over the positions of the directional price delta at price times
   quantity, nothing deducted *)
RECURSIVE OpenDelta(_, _)
OpenDelta(positions, price) ==
    IF positions = <<>> THEN 0
    ELSE (IF Head(positions).side = "BUY"
          THEN ((price - Head(positions).entry_price) * Head(positions).quantity)
                 \div QtyScale
          ELSE ((Head(positions).entry_price - price) * Head(positions).quantity)
                 \div QtyScale)
         + OpenDelta(Tail(positions), price)

(* C25: the equity sample recorded for a bar equals the realized capital
   after that bar's closes and opens plus the sum, over the positions then
   open, of (close - entry_price) x quantity for BUY and
   (entry_price - close) x quantity for SELL, no commission deducted; with no
   open position it is the realized capital. *)
C25_EquityDefinition ==
    (pc = "loop" /\ BarsProcessed >= 1) =>
        /\ Last(bt.equity_curve)
              = bt.current_capital
                + OpenDelta(bt.open_positions, CloseAt(run.d, run.i - 1))
        /\ bt.open_positions = <<>> => Last(bt.equity_curve) = bt.current_capital

(* a sample taken with a BUY and a SELL position open whose deltas do not
   cancel *)
C25_Witness ==
    /\ pc = "loop" /\ BarsProcessed >= 2
    /\ \E j, k \in 1..Len(bt.open_positions) :
          bt.open_positions[j].side = "BUY" /\ bt.open_positions[k].side = "SELL"
    /\ Last(bt.equity_curve) # bt.current_capital

(* C26: along the closed-trade list exit times never decrease and no
   STOP_LOSS or TAKE_PROFIT trade follows an END_OF_DATA trade; while the
   loop runs, it has processed the bars before index run.i and no trade was
   entered or closed on a later bar than the last of them. *)
C26_ChronologicalClosedList ==
    /\ \A j, k \in 1..Len(bt.trades) :
          j < k =>
              /\ bt.trades[j].exit_time[1] <= bt.trades[k].exit_time[1]
              /\ bt.trades[j].exit_reason = "END_OF_DATA"
                    => bt.trades[k].exit_reason = "END_OF_DATA"
    /\ pc = "loop" =>
          \A k \in 1..Len(AllTrades) :
              /\ AllTrades[k].entry_time <= TimestampAt(run.d, run.i - 1)
              /\ AllTrades[k].exit_time # None
                    => AllTrades[k].exit_time[1] <= TimestampAt(run.d, run.i - 1)

(* a Report whose list holds trades closed by stop or target on two
   different bars and, after them, a trade liquidated at the end of data *)
C26_Witness ==
    /\ JustReturned
    /\ \E i, j, k \in 1..Len(bt.trades) :
          /\ i < j /\ j < k
          /\ bt.trades[i].exit_reason \in {"STOP_LOSS", "TAKE_PROFIT"}
          /\ bt.trades[j].exit_reason \in {"STOP_LOSS", "TAKE_PROFIT"}
          /\ bt.trades[i].exit_time[1] < bt.trades[j].exit_time[1]
          /\ bt.trades[k].exit_reason = "END_OF_DATA"

(* n consecutive entries of flags, starting at some index, are all TRUE *)
HasRun(flags, n) ==
    \E first \in 1..(Len(flags) - n + 1) :
        \A k \in first..(first + n - 1) : flags[k]

(* length of the longest contiguous run of TRUE entries *)
LongestRunLength(flags) ==
    CHOOSE n \in 0..Len(flags) :
        /\ HasRun(flags, n)
        /\ \A m \in (n + 1)..Len(flags) : ~HasRun(flags, m)

(* C27: in a Report consecutive_wins (consecutive_losses) is the length of
   the longest contiguous run of trades with pnl > 0 (pnl < 0) in the
   closed-trade list; a trade that is neither ends a run of either kind. *)
C27_StreakMetrics ==
    \A n \in Reports :
        /\ ReportOf(n).metrics.consecutive_wins
              = LongestRunLength([k \in 1..Len(ReportOf(n).trades) |->
                                    ReportOf(n).trades[k].pnl[1] > 0])
        /\ ReportOf(n).metrics.consecutive_losses
              = LongestRunLength([k \in 1..Len(ReportOf(n).trades) |->
                                    ReportOf(n).trades[k].pnl[1] < 0])

(* a Report with two losing trades separated by a winning one *)
C27_Witness ==
    \E n \in Reports :
        /\ ReportOf(n).metrics.losing_trades = 2
        /\ ReportOf(n).metrics.consecutive_losses = 1
        /\ ReportOf(n).metrics.consecutive_wins = 1

(* indices of the trades of a list that made a profit, and that made a loss *)
Winners(trades) == {k \in 1..Len(trades) : trades[k].pnl[1] > 0}
Losers(trades) == {k \in 1..Len(trades) : trades[k].pnl[1] < 0}

(* sum of pnl over the trades of a list with index in S *)
RECURSIVE SumPnl(_, _)
SumPnl(trades, S) ==
    IF S = {} THEN 0
    ELSE LET k == CHOOSE x \in S : TRUE
         IN trades[k].pnl[1] + SumPnl(trades, S \ {k})

WinLossStatistics(trades, metrics) ==
    /\ metrics.total_trades = Len(trades)
    /\ metrics.winning_trades = Cardinality(Winners(trades))
    /\ metrics.losing_trades = Cardinality(Losers(trades))
    /\ metrics.winning_trades + metrics.losing_trades <= metrics.total_trades
    /\ metrics.win_rate
          = (metrics.winning_trades * 100 * PctScale) \div metrics.total_trades
    /\ metrics.losing_trades >= 1 =>
          metrics.profit_factor
            = (Abs(SumPnl(trades, Winners(trades))) * RatioScale)
                \div Abs(SumPnl(trades, Losers(trades)))
    /\ (metrics.losing_trades = 0 /\ metrics.winning_trades >= 1) =>
          metrics.profit_factor = Infinity

(* C28: in a Report with a non-empty closed-trade list winning_trades counts
   the trades with pnl > 0, losing_trades those with pnl < 0, their sum is at
   most total_trades, win_rate is winning_trades / total_trades x 100, and
   profit_factor is |sum of winning pnl| / |sum of losing pnl| with a losing
   trade, and infinite with none and at least one winning trade. *)
C28_WinLossStatistics ==
    \A n \in Reports :
        ReportOf(n).trades # <<>> =>
            WinLossStatistics(ReportOf(n).trades, ReportOf(n).metrics)

(* one instance returned a Report of winning trades only and a Report with
   both winning and losing trades *)
C28_Witness ==
    \E m, n \in Reports :
        /\ ReportOf(m).metrics.winning_trades >= 1
        /\ ReportOf(m).metrics.losing_trades = 0
        /\ ReportOf(m).metrics.profit_factor = Infinity
        /\ ReportOf(n).metrics.winning_trades >= 1
        /\ ReportOf(n).metrics.losing_trades >= 1
        /\ ReportOf(n).metrics.profit_factor > 0
        /\ ReportOf(n).metrics.profit_factor < Infinity
        /\ ReportOf(n).metrics.win_rate < 100 * PctScale

(* the step is a call of run_backtest that raised the insufficient-data error *)
Aborts ==
    /\ Len(outcomes') = Len(outcomes) + 1
    /\ Last(outcomes').kind = "ValueError"

(* every call after the k-th one raised the insufficient-data error *)
OnlyAbortsAfter(k) ==
    \A j \in (k + 1)..Len(outcomes) : outcomes[j].kind = "ValueError"

(* the instance holds what the Report of call k was made from *)
HoldsResultsOf(k) ==
    /\ [j \in 1..Len(bt.trades) |-> trade_to_dict(bt.trades[j])]
          = ReportOf(k).trades
    /\ bt.equity_curve = ReportOf(k).equity_curve
    /\ bt.drawdown_curve = ReportOf(k).drawdown_curve
    /\ bt.daily_returns = ReportOf(k).daily_returns
    /\ bt.open_positions = <<>>

(* between calls, with only aborted calls since call n (since construction
   for n = 0), the instance holds what call n (the constructor) left *)
StateKeptAfterAborts ==
    pc = "idle" =>
        /\ \A n \in Reports :
              (n < Len(outcomes) /\ OnlyAbortsAfter(n)) => HoldsResultsOf(n)
        /\ (outcomes # <<>> /\ OnlyAbortsAfter(0)) =>
              bt = NewBacktester(bt.initial_capital)

(* C29: a call of run_backtest that raises the insufficient-data error leaves
   the instance's trades, equity, drawdown and return series, capital and
   open positions as they were before the call; after such a call the
   instance still holds the results of the last successful run, or, with no
   run before it, what the constructor set. *)
C29_AbortLeavesStateUntouched ==
    /\ [](StateKeptAfterAborts)
    /\ [][Aborts => bt' = bt]_vars

(* a run that closed trades returned its Report, and the next call on the
   instance raised the insufficient-data error *)
C29_Witness ==
    /\ pc = "idle"
    /\ Len(outcomes) = 2
    /\ outcomes[1].kind = "Report"
    /\ ReportOf(1).trades # <<>>
    /\ outcomes[2].kind = "ValueError"
    /\ bt.trades # <<>>
    /\ Len(bt.equity_curve) > 1

(* close of the bar of this step *)
StepClose == CloseAt(data, StepTime - 1)

(* the position is among the open positions after the step, as it was *)
KeptUnmodified(position) ==
    \E j \in 1..Len(bt'.open_positions) : bt'.open_positions[j] = position

(* the step moved the position to the closed trades, for the given reason *)
ClosedInStepFor(position, reason) ==
    \E j \in (Len(bt.trades) + 1)..Len(bt'.trades) :
        /\ bt'.trades[j].entry_time = position.entry_time
        /\ bt'.trades[j].side = position.side
        /\ bt'.trades[j].exit_reason = reason

(* C30: every closed trade has exit_reason STOP_LOSS, TAKE_PROFIT or
   END_OF_DATA, never SIGNAL; and whatever signal a bar brings, a position
   open before the bar is after it either still open and unmodified, or
   closed because the bar's close reached its stop or its target, for that
   level's reason: a signal, also one opposite to an open position, closes
   and modifies nothing. *)
C30_ExitReasonsProduced ==
    /\ [](\A k \in 1..Len(bt.trades) :
             /\ bt.trades[k].exit_reason
                   \in {"STOP_LOSS", "TAKE_PROFIT", "END_OF_DATA"}
             /\ bt.trades[k].exit_reason # "SIGNAL")
    /\ [][ BarStep =>
              \A k \in 1..Len(bt.open_positions) :
                  \/ KeptUnmodified(bt.open_positions[k])
                  \/ /\ ExitReasonAt(bt.open_positions[k], StepClose) # ""
                     /\ ClosedInStepFor(bt.open_positions[k],
                            ExitReasonAt(bt.open_positions[k], StepClose))
          ]_vars

(* a BUY position and a SELL position opened on a later bar are open at the
   same time *)
C30_Witness ==
    /\ pc = "loop"
    /\ \E j, k \in 1..Len(bt.open_positions) :
          /\ j < k
          /\ bt.open_positions[j].side = "BUY"
          /\ bt.open_positions[k].side = "SELL"
          /\ bt.open_positions[j].entry_time < bt.open_positions[k].entry_time

(* C31: on an instance constructed with initial_capital >= 0 the realized
   capital is never negative: not after a position is opened, not after one
   is closed at its stop or target, and not after the forced liquidation. *)
C31_RealizedCapitalNonNegative ==
    bt.initial_capital >= 0 => bt.current_capital >= 0

(* a run that opened positions, closed one at a level at a loss and
   liquidated another at the end of the data has returned *)
C31_Witness ==
    /\ JustReturned
    /\ bt.initial_capital > 0
    /\ \E j, k \in 1..Len(bt.trades) :
          /\ bt.trades[j].exit_reason = "STOP_LOSS"
          /\ bt.trades[k].exit_reason = "END_OF_DATA"
    /\ bt.current_capital < bt.initial_capital

(* max_position_size x confidence x (1 + commission) > 1 *)
Oversized(confidence) ==
    config.max_position_size * confidence * (BP + commission) > Pct * Pct * BP

(* the signal of this step opened no position *)
SignalRejected ==
    Len(bt'.open_positions) = Len(LedgerAtSignal.open_positions)

(* C32: a signal sized to at least 100 is rejected if and only if
   max_position_size x confidence x (1 + commission) > 1, whatever capital
   remains and however many positions are open; so with
   max_position_size x confidence <= 1/(1 + commission) a signal is rejected
   only when the value it is sized to is below 100. *)
C32_InsufficientCapitalRejection ==
    [][ (BarStep /\ SignalGiven) =>
           /\ ValueAtSignal >= MinPositionValue =>
                 (SignalRejected <=> Oversized(oracle'[StepTime].confidence))
           /\ (SignalRejected /\ ~Oversized(oracle'[StepTime].confidence)) =>
                 ValueAtSignal < MinPositionValue
      ]_vars

(* with a position open and part of the capital spent, a BUY sized to at
   least 100 on the last processed bar was rejected, and an earlier BUY of
   a smaller share of the capital had been accepted *)
C32_Witness ==
    /\ pc = "loop" /\ BarsProcessed >= 2
    /\ AnswerAt(TimestampAt(run.d, run.i - 1)).kind = "ok"
    /\ AnswerAt(TimestampAt(run.d, run.i - 1)).signal = "BUY"
    /\ Oversized(AnswerAt(TimestampAt(run.d, run.i - 1)).confidence)
    /\ SizedValue(bt.current_capital,
                  AnswerAt(TimestampAt(run.d, run.i - 1)).confidence)
          >= MinPositionValue
    /\ bt.current_capital < bt.initial_capital
    /\ bt.open_positions # <<>>
    /\ \A k \in 1..Len(AllTrades) :
          /\ AllTrades[k].entry_time < TimestampAt(run.d, run.i - 1)
          /\ ~Oversized(AnswerAt(AllTrades[k].entry_time).confidence)

(* the run's ledger shows one round trip and nothing else: a single trade,
   opened from the capital the run started with, and closed *)
SingleRoundTrip ==
    /\ bt.initialized
    /\ bt.open_positions = <<>>
    /\ Len(bt.trades) = 1

(* commission charged when the run's first trade was opened *)
FirstEntryCommission ==
    (SizedValue(bt.initial_capital, AnswerAt(bt.trades[1].entry_time).confidence)
        * commission) \div BP

(* a quantity is held to 1/QtyScale, which at the highest close is worth
   this much; the fixed-point sums agree with the exact ones within it *)
RoundTripTolerance == (108 * Cents) \div QtyScale + 2 * RoundingTolerance

(* C33: with slippage 0, for a trade of either side opened and later closed
   with no other ledger activity in between, realized capital after the
   close minus realized capital before the open equals the trade's pnl minus
   the entry commission. *)
C33_RoundTripAccounting ==
    (slippage = 0 /\ SingleRoundTrip) =>
        Abs((bt.current_capital - bt.initial_capital)
            - (bt.trades[1].pnl[1] - FirstEntryCommission))
          <= RoundTripTolerance

(* the step is the end of a run that returns a Report *)
ReturnsReport ==
    /\ pc = "loop" /\ pc' = "idle"
    /\ Last(outcomes').kind = "Report"

(* C34: the last equity sample, and with it final_capital, total_return and
   the last drawdown sample, is recorded before the end-of-data forced
   close: the forced close appends no equity, drawdown or return sample, and
   final_capital is realized capital plus unrealized pnl at the last close
   as they stood before the liquidation, without the exit slippage, exit
   commission and capital credit of the END_OF_DATA trades. *)
C34_FinalSamplePrecedesLiquidation ==
    [][ ReturnsReport =>
           /\ bt'.equity_curve = bt.equity_curve
           /\ bt'.drawdown_curve = bt.drawdown_curve
           /\ bt'.daily_returns = bt.daily_returns
           /\ Last(outcomes').report[1].equity_curve = bt.equity_curve
           /\ Last(outcomes').report[1].drawdown_curve = bt.drawdown_curve
           /\ Last(outcomes').report[1].daily_returns = bt.daily_returns
           /\ Last(outcomes').report[1].final_capital = Last(bt.equity_curve)
           /\ Last(outcomes').report[1].final_capital
                 = bt.current_capital
                   + UnrealizedOf(bt.open_positions,
                                  CloseAt(run.d, FrameLen(run.d) - 1))
           /\ bt'.trades # <<>> =>
                 Last(outcomes').report[1].metrics.total_return
                   = Last(bt.equity_curve) - bt.initial_capital
      ]_vars

(* a Report whose trades include one closed at the end of the data, and
   whose final_capital is not the realized capital the liquidation left *)
C34_Witness ==
    /\ JustReturned
    /\ \E k \in 1..Len(bt.trades) : bt.trades[k].exit_reason = "END_OF_DATA"
    /\ ReportOf(Len(outcomes)).final_capital # bt.current_capital
    /\ Len(bt.equity_curve) > 2

(* two sample series agree wherever both have a sample *)
AgreeOnCommonBars(s, t) == IsPrefix(s, t) \/ IsPrefix(t, s)

(* what was fixed when a trade was entered *)
EntryOf(tr) == <<tr.entry_time, tr.side, tr.entry_price, tr.quantity>>

(* the positions Report r shows open after the bar with timestamp t *)
OpenAfter(r, t) ==
    {EntryOf(r.trades[k]) : k \in {x \in 1..Len(r.trades) :
                                     /\ r.trades[x].entry_time <= t
                                     /\ \/ r.trades[x].exit_time[1] > t
                                        \/ r.trades[x].exit_reason = "END_OF_DATA"}}

(* C35: with a deterministic strategy, the equity, drawdown and return
   samples recorded for a bar, and the positions open after it, depend on
   the bars up to it and the config only: a run over a longer bar sequence,
   finished or still in progress, has the same samples at every index a run
   over a shorter one has, and the same positions open after the shorter
   run's last bar. *)
C35_EquityPrefixDeterminism ==
    \A j \in Reports :
        /\ \A k \in Reports :
              outcomes[j].bars < outcomes[k].bars =>
                  /\ IsPrefix(ReportOf(j).equity_curve, ReportOf(k).equity_curve)
                  /\ IsPrefix(ReportOf(j).drawdown_curve, ReportOf(k).drawdown_curve)
                  /\ IsPrefix(ReportOf(j).daily_returns, ReportOf(k).daily_returns)
                  /\ OpenAfter(ReportOf(j), outcomes[j].bars)
                        = OpenAfter(ReportOf(k), outcomes[j].bars)
        /\ pc = "loop" =>
              /\ AgreeOnCommonBars(bt.equity_curve, ReportOf(j).equity_curve)
              /\ AgreeOnCommonBars(bt.drawdown_curve, ReportOf(j).drawdown_curve)
              /\ AgreeOnCommonBars(bt.daily_returns, ReportOf(j).daily_returns)
              /\ (run.i >= config.min_lookback_period + 1 /\ run.i <= outcomes[j].bars) =>
                    {EntryOf(bt.open_positions[k]) : k \in 1..Len(bt.open_positions)}
                      = OpenAfter(ReportOf(j), TimestampAt(run.d, run.i - 1))

(* a run over the shorter sequence ended with a position open, and the run
   over the longer sequence closed that position at a level on a later bar,
   both after samples that moved *)
C35_Witness ==
    \E j, k \in Reports :
        /\ outcomes[j].bars < outcomes[k].bars
        /\ Len(ReportOf(j).equity_curve) >= 3
        /\ ReportOf(j).equity_curve[2] # ReportOf(j).equity_curve[3]
        /\ OpenAfter(ReportOf(j), outcomes[j].bars) # {}
        /\ \E x \in 1..Len(ReportOf(k).trades) :
              /\ ReportOf(k).trades[x].entry_time <= outcomes[j].bars
              /\ ReportOf(k).trades[x].exit_time[1] > outcomes[j].bars
              /\ ReportOf(k).trades[x].exit_reason \in {"STOP_LOSS", "TAKE_PROFIT"}

(* what the series that the results dict of call k references hold now: the
   dict holds the list objects themselves, which are the instance's own
   lists as long as its attributes still name them *)
SeriesHeldBy(k) ==
    IF heap.refs[k] = bt.lists THEN SeriesOf(bt) ELSE heap.objects[heap.refs[k]]

(* the series of the Report of call k as run_backtest returned them *)
SeriesReturned(k) ==
    [equity_curve |-> ReportOf(k).equity_curve,
     drawdown_curve |-> ReportOf(k).drawdown_curve,
     daily_returns |-> ReportOf(k).daily_returns]

(* C36: a Report returned by run_backtest is not changed by a later call of
   run_backtest on the same instance: at every later moment, between calls
   and during them, the equity, drawdown and return series the Report
   references hold what they held when it was returned, and the series
   objects of two Reports are distinct.  (The trade records and the metrics
   of a Report are objects made for it, which no attribute of the instance
   names.) *)
C36_ReportStability ==
    /\ \A k \in Reports : SeriesHeldBy(k) = SeriesReturned(k)
    /\ \A j, k \in Reports : j # k => heap.refs[j] # heap.refs[k]

(* a later call on the instance is past its first bars, with series that
   differ from those of the Report an earlier call returned *)
C36_Witness ==
    /\ pc = "loop"
    /\ Len(bt.equity_curve) >= 3
    /\ \E k \in Reports :
          /\ Len(ReportOf(k).equity_curve) >= 3
          /\ ReportOf(k).trades # <<>>
          /\ ~IsPrefix(bt.equity_curve, ReportOf(k).equity_curve)

====
